---- MODULE Spec2Model ----
(***************************************************************************)
(* State-machine model of the placement enumerator, the training game      *)
(* loop (new approach) and the replay buffers of dqlearning-tetris.        *)
(*                                                                         *)
(* Cells are pairs <<x, y>> (column, row); row 0 is the top visible row,   *)
(* rows -4..-1 are the hidden rows above the playzone.  A grid / state is  *)
(* represented by the set of its filled visible cells.                     *)
(***************************************************************************)
EXTENDS Integers, Sequences, FiniteSets, TLC

VARIABLES
    pc,                 \* position of main_ai_learn_new / of the buffer driver
    locked_positions,   \* keys of the locked_positions dictionary
    current_piece,      \* Piece in play: [shape, x, y, rotation]
    next_piece,         \* shape of the next Piece (always at its spawn position)
    randomizer_shapes,  \* remaining bag, in pop order
    action,             \* action returned by agent.act: [x, rot, state]
    steps,              \* queue built by generate_movement_sequence
    poll_time,          \* logical clock of the input polling
    fall_time,          \* logical clock of the gravity
    run,                \* game still running
    lines,              \* lines cleared in this game
    initial_state,      \* snapshot taken in the pre-loop
    final_lines_cleared,
    final_piece_depth,
    locked_piece,       \* observation: the piece as it was when it was locked
    locked_before_clear,\* observation: locked_positions before clear_rows
    book_pos,           \* number of opening-book placements played so far
    free_moves,         \* number of actions chosen outside the opening books
    book,               \* the opening book this game follows (NoBook, OffBook)
    loop_epoch,         \* current_epoch of main_ai_learn_new
    scored_state,       \* state scored when the piece was locked (final_score)
    locks,              \* observation: pieces locked since the last agent.act
    games_played,       \* observation: games whose "while run" loop was left
    features,           \* observation: the values the last scoring call computed
    agent_type,         \* 'standard_new' | 'prioritized_new' | 'standard_old'
    experience_replay_size, \* maxlen of the experience replay deque
    batch_size,
    experience_replay,  \* the deque, oldest entry first
    sorted_queue,       \* PrioritizedAgentNew.sorted_queue (<<>> for None)
    insertion,          \* PrioritizedAgentNew.insertion
    batch,              \* entries drawn by the last training step
    raised,             \* the last agent call ended with an exception
    trained,            \* the last agent call entered _learn_from_replay
    q_network,          \* number of fit() calls the Q network has received
    target_network,     \* value of q_network the target weights were copied from
    current_epoch,      \* agent.current_epoch
    inserted,           \* observation: every experience handed to insert_experience
    epsilon,            \* agent.epsilon, in epsilon units (see epsilon_unit)
    initial_epsilon,    \* agent.initial_epsilon, in epsilon units
    epsilon_decay,      \* agent.epsilon_decay, in epsilon units
    minimum_epsilon,    \* agent.minimum_epsilon, in epsilon units
    total_epochs,       \* total_epochs of the run
    epsilon_percentage, \* epsilon_percentage of the run
    targets,            \* observation: the targets the last training step fitted
    last_call,          \* observation: the agent method called last
    explored,           \* observation: the last act took the random branch
    beta                \* PrioritizedAgentNew.beta, in beta units (see beta_unit)

vars == <<pc, locked_positions, current_piece, next_piece, randomizer_shapes,
          action, steps, poll_time, fall_time, run, lines, initial_state,
          final_lines_cleared, final_piece_depth, locked_piece,
          locked_before_clear, book_pos, free_moves, book, loop_epoch,
          scored_state, locks, games_played, agent_type,
          experience_replay_size, batch_size, experience_replay, sorted_queue,
          insertion, batch, raised, trained, q_network, target_network,
          current_epoch, inserted, epsilon, initial_epsilon, epsilon_decay,
          minimum_epsilon, total_epochs, epsilon_percentage, targets,
          last_call, features, explored, beta>>

game_vars == <<locked_positions, current_piece, next_piece, randomizer_shapes,
               action, steps, poll_time, fall_time, run, lines, initial_state,
               final_lines_cleared, final_piece_depth, locked_piece,
               locked_before_clear, book_pos, free_moves, book, loop_epoch,
               scored_state, locks, games_played, features>>

agent_vars == <<agent_type, experience_replay_size, batch_size,
                experience_replay, sorted_queue, insertion, batch, raised,
                trained, q_network, target_network, current_epoch, inserted,
                epsilon, initial_epsilon, epsilon_decay, minimum_epsilon,
                total_epochs, epsilon_percentage, targets, last_call,
                explored, beta>>

\* the configuration of the agent, fixed by its constructor
agent_config == <<agent_type, experience_replay_size, batch_size,
                  initial_epsilon, epsilon_decay, minimum_epsilon,
                  total_epochs, epsilon_percentage, beta>>

----------------------------------------------------------------------------
(* Bounds of the model                                                     *)

\* actions a game may choose outside the opening book
MaxFree == 1
\* largest replay capacity (experience_replay_size) tried
MaxCapacity == 3
\* largest batch size tried
MaxBatch == 2
\* insert_experience calls per run of the buffer driver
MaxInserts == 4
\* epochs (total_epochs) per run of the buffer driver
MaxEpochs == 2
\* distinct experience tuples handed to the buffer driver
MaxExperience == 2

\* rows of the boards clear_rows is run on
MaxStack == 4
\* rows of the boards the features are computed of
MaxFeatureRows == 3

----------------------------------------------------------------------------
(* Program constants                                                       *)

Columns == 10
Rows == 20
HiddenRows == 4
SpawnX == 5
SpawnY == 0
polling_speed == 250
game_speed_ai == 250
max_lines_training == 100
default_experience_replay_size == 20000
default_batch_size == 32
\* epsilon, minimum_epsilon in thousandths; epsilon_percentage
default_epsilon == 1000
default_minimum_epsilon == 50
default_epsilon_percentage == 75
\* float('inf'), the priority of a new entry
inf == 1000000

----------------------------------------------------------------------------
(* Tetraminoes: for every shape the list of its rotation formats, each a   *)
(* set of <<j, i>> = (column, line) of the '0' characters of the 5x5 text. *)

S == << {<<2,2>>, <<3,2>>, <<1,3>>, <<2,3>>},
        {<<2,1>>, <<2,2>>, <<3,2>>, <<3,3>>} >>

Z == << {<<1,2>>, <<2,2>>, <<2,3>>, <<3,3>>},
        {<<2,1>>, <<1,2>>, <<2,2>>, <<1,3>>} >>

I == << {<<2,0>>, <<2,1>>, <<2,2>>, <<2,3>>},
        {<<0,2>>, <<1,2>>, <<2,2>>, <<3,2>>} >>

O == << {<<1,2>>, <<2,2>>, <<1,3>>, <<2,3>>} >>

J == << {<<1,1>>, <<1,2>>, <<2,2>>, <<3,2>>},
        {<<2,1>>, <<3,1>>, <<2,2>>, <<2,3>>},
        {<<1,2>>, <<2,2>>, <<3,2>>, <<3,3>>},
        {<<2,1>>, <<2,2>>, <<1,3>>, <<2,3>>} >>

L == << {<<3,1>>, <<1,2>>, <<2,2>>, <<3,2>>},
        {<<2,1>>, <<2,2>>, <<2,3>>, <<3,3>>},
        {<<1,2>>, <<2,2>>, <<3,2>>, <<1,3>>},
        {<<1,1>>, <<2,1>>, <<2,2>>, <<2,3>>} >>

T == << {<<2,1>>, <<1,2>>, <<2,2>>, <<3,2>>},
        {<<2,1>>, <<2,2>>, <<3,2>>, <<2,3>>},
        {<<1,2>>, <<2,2>>, <<3,2>>, <<2,3>>},
        {<<2,1>>, <<1,2>>, <<2,2>>, <<2,3>>} >>

ShapeNames == {"S", "Z", "I", "O", "J", "L", "T"}

shapes(name) ==
    CASE name = "S" -> S
      [] name = "Z" -> Z
      [] name = "I" -> I
      [] name = "O" -> O
      [] name = "J" -> J
      [] name = "L" -> L
      [] name = "T" -> T

\* Piece(x, y, shape): rotation starts at 0
Piece(x, y, shape) == [shape |-> shape, x |-> x, y |-> y, rotation |-> 0]

Abs(n) == IF n < 0 THEN -n ELSE n

----------------------------------------------------------------------------
(* Grid helpers                                                            *)

\* create_grid: the visible cells that carry a colour
create_grid(locked) ==
    {p \in locked : p[1] \in 0..(Columns - 1) /\ p[2] \in 0..(Rows - 1)}

\* generate_shape_positions: the cells of the piece, offset (-2, -4) removed
generate_shape_positions(shape) ==
    LET fmt == shapes(shape.shape)[(shape.rotation % Len(shapes(shape.shape))) + 1]
    IN  {<<shape.x + c[1] - 2, shape.y + c[2] - 4>> : c \in fmt}

\* valid_space: every cell of the piece is an accepted position, i.e. an empty
\* visible cell or a cell of the four hidden rows (index -4 to -1)
valid_space(shape, grid) ==
    \A pos \in generate_shape_positions(shape) :
        /\ pos[1] \in 0..(Columns - 1)
        /\ pos[2] \in (-HiddenRows)..(Rows - 1)
        /\ (pos[2] < 0 \/ pos \notin grid)

\* variant: only a locked position above the hidden rows ends the game
check_defeat_above_hidden(positions) ==
    \E pos \in positions : pos[2] < -HiddenRows

\* check_defeat: some locked position has y < 1
check_defeat(positions) == \E pos \in positions : pos[2] < 1

\* Python list index: negative indexes count from the end
PyIndex(i, n) == IF i < 0 THEN i + n ELSE i

\* variant: negative positions of the piece are not ignored
generate_state_negative_index(locked, piece) ==
    {<<PyIndex(p[1], Columns), PyIndex(p[2], Rows)>> :
        p \in locked \cup generate_shape_positions(piece)}

\* generate_state: the 20x10 matrix as the set of its cells equal to 1
generate_state(locked, piece) ==
    {<<PyIndex(p[1], Columns), PyIndex(p[2], Rows)>> : p \in locked}
    \cup {p \in generate_shape_positions(piece) : p[1] >= 0 /\ p[2] >= 0}

----------------------------------------------------------------------------
(* generate_possible_actions                                               *)

\* rotation_amount = len(current_piece.shape)
rotation_amount(piece) == Len(shapes(piece.shape))

\* The positions the simulated piece visits for the candidate (rot, x):
\* rot rotations, then |x_difference| single-column moves, every one of them
\* also lowering the piece one row.
sim_path(piece, rot, x) ==
    LET x_difference == piece.x - x
        dir == IF x_difference < 0 THEN 1 ELSE -1
    IN  [i \in 1..(rot + Abs(x_difference)) |->
            IF i <= rot
            THEN [piece EXCEPT !.rotation = @ + i, !.y = @ + i]
            ELSE [piece EXCEPT !.rotation = @ + rot,
                               !.x = @ + dir * (i - rot),
                               !.y = @ + i]]

\* the piece once all simulated steps of the candidate have been applied
sim_moved(piece, rot, x) ==
    LET path == sim_path(piece, rot, x)
    IN  IF Len(path) = 0 THEN piece ELSE path[Len(path)]

\* variant: only the position reached at the end of the steps is checked
legal_move_last_position(piece, grid, rot, x) ==
    valid_space(sim_moved(piece, rot, x), grid)

\* legal_move stays True only if no visited position fails valid_space
legal_move(piece, grid, rot, x) ==
    \A i \in DOMAIN sim_path(piece, rot, x) :
        valid_space(sim_path(piece, rot, x)[i], grid)

\* variant: the piece is not moved back up once the position is invalid
RECURSIVE move_down_no_step_back(_, _)
move_down_no_step_back(piece, grid) ==
    IF valid_space(piece, grid)
    THEN move_down_no_step_back([piece EXCEPT !.y = @ + 1], grid)
    ELSE piece

\* "while valid_space(...): y += 1" followed by "y -= 1"
RECURSIVE move_down(_, _)
move_down(piece, grid) ==
    IF valid_space(piece, grid)
    THEN move_down([piece EXCEPT !.y = @ + 1], grid)
    ELSE [piece EXCEPT !.y = @ - 1]

\* where the piece of candidate (rot, x) comes to rest
rest_piece(locked, piece, rot, x) ==
    move_down(sim_moved(piece, rot, x), create_grid(locked))

\* variant: four rotations are tried for every shape
candidates_four_rotations(piece) ==
    [idx \in 1..(4 * Columns) |->
        [rot |-> (idx - 1) \div Columns, x |-> (idx - 1) % Columns]]

\* variant: the loops are nested the other way round (column first)
candidates_column_major(piece) ==
    [idx \in 1..(rotation_amount(piece) * Columns) |->
        [rot |-> (idx - 1) % rotation_amount(piece),
         x |-> (idx - 1) \div rotation_amount(piece)]]

\* the candidates in loop order: for rot in range(rotation_amount): for x in range(10)
candidates(piece) ==
    [idx \in 1..(rotation_amount(piece) * Columns) |->
        [rot |-> (idx - 1) \div Columns, x |-> (idx - 1) % Columns]]

\* the list of actions (x, rot, state) returned
generate_possible_actions(locked, piece) ==
    LET grid  == create_grid(locked)
        legal == SelectSeq(candidates(piece),
                           LAMBDA c : legal_move(piece, grid, c.rot, c.x))
    IN  [i \in 1..Len(legal) |->
            [x |-> legal[i].x, rot |-> legal[i].rot,
             state |-> generate_state(locked,
                          rest_piece(locked, piece, legal[i].rot, legal[i].x))]]

\* the piece object when the two loops are left: the last candidate
\* (rot = rotation_amount - 1, x = 9) was simulated on the piece itself
piece_after_loops(locked, piece) ==
    LET rot == rotation_amount(piece) - 1
        x   == Columns - 1
    IN  IF legal_move(piece, create_grid(locked), rot, x)
        THEN rest_piece(locked, piece, rot, x)
        ELSE sim_moved(piece, rot, x)

\* variant: the piece is left where the last simulation put it
restore_piece_missing(piece, original) == piece

\* "Return the current piece to the original position"
restore_piece(piece, original) ==
    [piece EXCEPT !.x = original.x, !.y = original.y,
                  !.rotation = original.rotation]

\* the fields of the piece object when generate_possible_actions returns
piece_after_actions(locked, piece) ==
    restore_piece(piece_after_loops(locked, piece), piece)

----------------------------------------------------------------------------
(* generate_movement_sequence                                              *)

Repeat(n, v) == [i \in 1..n |-> v]

\* variant: the displacement comes before the rotations
generate_movement_sequence_moves_first(act, piece) ==
    LET x_difference == piece.x - act.x
    IN  (IF x_difference < 0 THEN Repeat(-x_difference, "right")
         ELSE IF x_difference > 0 THEN Repeat(x_difference, "left")
         ELSE << >>)
        \o Repeat(act.rot, "rotate")
        \o <<"hard_drop">>

generate_movement_sequence(act, piece) ==
    LET x_difference == piece.x - act.x
    IN  Repeat(act.rot, "rotate")
        \o (IF x_difference < 0 THEN Repeat(-x_difference, "right")
            ELSE IF x_difference > 0 THEN Repeat(x_difference, "left")
            ELSE << >>)
        \o <<"hard_drop">>

----------------------------------------------------------------------------
(* Game primitives                                                         *)

\* process_inputs with a one-element list: the piece it returns
process_inputs_piece(input, piece, grid) ==
    LET left   == [piece EXCEPT !.x = @ - 1]
        right  == [piece EXCEPT !.x = @ + 1]
        soft   == [piece EXCEPT !.y = @ + 1]
        rotate == [piece EXCEPT !.rotation = @ + 1]
    IN  CASE input = "left"      -> IF valid_space(left, grid) THEN left ELSE piece
          [] input = "right"     -> IF valid_space(right, grid) THEN right ELSE piece
          [] input = "soft_drop" -> IF valid_space(soft, grid) THEN soft ELSE piece
          [] input = "hard_drop" -> move_down(piece, grid)
          [] input = "rotate"    -> IF valid_space(rotate, grid) THEN rotate ELSE piece
          [] OTHER               -> piece

\* variant: a rotation reports change_piece as the hard drop does
process_inputs_change_on_rotate(input) == input \in {"hard_drop", "rotate"}

\* process_inputs: the change_piece flag it returns
process_inputs_change(input) == input = "hard_drop"

\* place_piece returns shape_pos, the cells of the piece
place_piece(piece) == generate_shape_positions(piece)

\* the grid after place_piece: cells of the piece with y > -1 are coloured
placed_grid(piece, grid) == grid \cup {p \in place_piece(piece) : p[2] > -1}

\* variant: only the row at the floor is looked at
removed_lines_floor(grid) ==
    {i \in {Rows - 1} : \A j \in 0..(Columns - 1) : <<j, i>> \in grid}

\* clear_rows: the rows of the grid without background colour
removed_lines(grid) ==
    {i \in 0..(Rows - 1) : \A j \in 0..(Columns - 1) : <<j, i>> \in grid}

\* variant: the keys are moved from the smallest y to the biggest
next_key_ascending(keys) == CHOOSE k \in keys : \A o \in keys : k[2] <= o[2]

\* sorted(list(locked), key=lambda x: x[1])[::-1]: the key moved next is a
\* key with the biggest y among those still to be moved
next_key(keys) == CHOOSE k \in keys : \A o \in keys : o[2] <= k[2]

\* clear_rows: the loop that pops every key and stores it under its new y
RECURSIVE move_keys(_, _, _)
move_keys(locked, keys, removed) ==
    IF keys = {} THEN locked
    ELSE LET key     == next_key(keys)
             offset  == Cardinality({line \in removed : line > key[2]})
             new_key == <<key[1], key[2] + offset>>
         IN  move_keys((locked \ {key}) \cup {new_key}, keys \ {key}, removed)

\* clear_rows: the locked positions once the keys of the removed rows are
\* deleted and, if a row was removed, the remaining keys are moved
clear_rows(grid, locked) ==
    LET removed == removed_lines(grid)
        kept    == {p \in locked :
                      ~(p[2] \in removed /\ p[1] \in 0..(Columns - 1))}
    IN  IF removed = {} THEN kept
        ELSE move_keys(kept, kept, removed)

SetMax(s, default) ==
    IF s = {} THEN default ELSE CHOOSE m \in s : \A n \in s : n <= m

\* compute_reward_new with rewards_method = 'game', in tenths
compute_reward_new(game_finished, lines_cleared, lowest_position_filled) ==
    IF game_finished THEN -20
    ELSE IF lines_cleared > 0 THEN 10 * (2 ^ lines_cleared)
    ELSE lowest_position_filled - 10

----------------------------------------------------------------------------
(* Features of a state: the compute_ functions of tetris.py and the get_   *)
(* methods of ElTetrisAgent                                                *)

\* state[y][x] of a state given as the set of its cells equal to 1
cell(state, x, y) == IF <<x, y>> \in state THEN 1 ELSE 0

\* sum of the values of f over the set D
RECURSIVE SumFn(_, _)
SumFn(f, D) ==
    IF D = {} THEN 0
    ELSE LET x == CHOOSE x \in D : TRUE IN f[x] + SumFn(f, D \ {x})

\* 20 - y of the first cell of column x that is not 0, scanning from the top;
\* 0 if the loop ends without a break
column_height(state, x) ==
    LET filled == {y \in 0..(Rows - 1) : cell(state, x, y) # 0}
    IN  IF filled = {} THEN 0
        ELSE 20 - (CHOOSE y \in filled : \A o \in filled : y <= o)

compute_aggregate_height(state) ==
    SumFn([x \in 0..(Columns - 1) |-> column_height(state, x)],
          0..(Columns - 1))

\* np.sum(np.all(state != 0, axis=1))
compute_complete_lines(state) ==
    Cardinality({y \in 0..(Rows - 1) :
                    \A x \in 0..(Columns - 1) : cell(state, x, y) # 0})

\* variant: the flag is not cleared when a hole is counted
empty_space_after_hole_kept == TRUE

\* compute_holes: empty_space = False when a hole is counted
empty_space_after_hole == FALSE

\* compute_holes: the loop over column x from row y up to row 0, with the
\* flag empty_space; the value is what the loop adds to holes
RECURSIVE holes_from(_, _, _, _)
holes_from(state, x, y, empty_space) ==
    IF y < 0 THEN 0
    ELSE IF ~empty_space /\ cell(state, x, y) = 0
         THEN holes_from(state, x, y - 1, TRUE)
    ELSE IF empty_space /\ cell(state, x, y) # 0
         THEN 1 + holes_from(state, x, y - 1, empty_space_after_hole)
    ELSE holes_from(state, x, y - 1, empty_space)

compute_holes(state) ==
    SumFn([x \in 0..(Columns - 1) |-> holes_from(state, x, Rows - 1, FALSE)],
          0..(Columns - 1))

\* compute_bumpiness: the loop over the columns from x on, previous_height
\* being the height of column x - 1
RECURSIVE bumpiness_from(_, _, _)
bumpiness_from(state, x, previous_height) ==
    IF x >= Columns THEN 0
    ELSE LET current_height == column_height(state, x)
         IN  Abs(current_height - previous_height)
             + bumpiness_from(state, x + 1, current_height)

compute_bumpiness(state) ==
    bumpiness_from(state, 1, column_height(state, 0))

\* variant: current_piece.y is not set back
heuristic_piece_not_restored(locked_pieces, piece, piece_locked) ==
    IF piece_locked THEN piece
    ELSE move_down(piece, create_grid(locked_pieces))

\* compute_heuristic_state_score: the piece while the state is generated
heuristic_dropped_piece(locked_pieces, piece, piece_locked) ==
    IF piece_locked THEN piece
    ELSE move_down(piece, create_grid(locked_pieces))

\* compute_heuristic_state_score: the piece the call leaves behind,
\* piece.y = current_piece_y
heuristic_piece(locked_pieces, piece, piece_locked) ==
    [heuristic_dropped_piece(locked_pieces, piece, piece_locked)
        EXCEPT !.y = piece.y]

\* compute_heuristic_state_score: the state that is scored
heuristic_state(locked_pieces, piece, piece_locked) ==
    generate_state(locked_pieces,
        heuristic_dropped_piece(locked_pieces, piece, piece_locked))

\* the score of a state, in hundredths:
\* -0.51 * height + 0.76 * lines - 0.36 * holes - 0.18 * bumpiness
heuristic_score(state) ==
    (-51) * compute_aggregate_height(state)
    + 76 * compute_complete_lines(state)
    - 36 * compute_holes(state)
    - 18 * compute_bumpiness(state)

\* compute_heuristic_state_score: the statistics and the returned score
compute_heuristic_state_score(locked_pieces, piece, piece_locked) ==
    LET state == heuristic_state(locked_pieces, piece, piece_locked)
    IN  [aggregate_height |-> compute_aggregate_height(state),
         complete_lines   |-> compute_complete_lines(state),
         holes            |-> compute_holes(state),
         bumpiness        |-> compute_bumpiness(state),
         score            |-> heuristic_score(state)]

\* ElTetrisAgent.get_landing_height: depth = 19, one less for every cell of
\* the column above its first filled cell
get_landing_height(column, state) ==
    LET filled == {y \in 0..(Rows - 1) : cell(state, column, y) = 1}
    IN  IF filled = {} THEN 19 - Rows
        ELSE 19 - (CHOOSE y \in filled : \A o \in filled : y <= o)

get_complete_lines(state) ==
    Cardinality({y \in 0..(Rows - 1) :
                    \A x \in 0..(Columns - 1) : cell(state, x, y) # 0})

\* variant: the scan of a line starts from a filled cell outside the board
first_value_wall(line) == 1

\* current_value = row[0]: the value the scan of a line starts with
first_value(line) == line[1]

\* the inner loop of get_row_transitions and get_column_transitions over
\* the elements of a line from index i on
RECURSIVE transitions_from(_, _, _)
transitions_from(line, i, current_value) ==
    IF i > Len(line) THEN 0
    ELSE IF line[i] # current_value
         THEN 1 + transitions_from(line, i + 1, line[i])
    ELSE transitions_from(line, i + 1, current_value)

line_transitions(line) == transitions_from(line, 1, first_value(line))

\* row y and column x of the state, as Python sequences
state_row(state, y) == [i \in 1..Columns |-> cell(state, i - 1, y)]
state_column(state, x) == [i \in 1..Rows |-> cell(state, x, i - 1)]

get_row_transitions(state) ==
    SumFn([y \in 0..(Rows - 1) |-> line_transitions(state_row(state, y))],
          0..(Rows - 1))

get_column_transitions(state) ==
    SumFn([x \in 0..(Columns - 1) |->
              line_transitions(state_column(state, x))],
          0..(Columns - 1))

get_holes(state) ==
    SumFn([x \in 0..(Columns - 1) |-> holes_from(state, x, Rows - 1, FALSE)],
          0..(Columns - 1))

\* get_wells: the loop "check if the well continues" from row new_y on; the
\* value is what it adds to wells
RECURSIVE well_continues(_, _, _, _)
well_continues(state, x, new_y, well_depth) ==
    IF new_y >= Rows THEN 0
    ELSE IF cell(state, x, new_y) = 0
         THEN (well_depth + 1) + well_continues(state, x, new_y + 1,
                                                well_depth + 1)
    ELSE 0

\* get_wells: what the search for a well in column x adds to wells; the
\* search stops (break) at the first row where a well starts
well_of_column(state, x, starts) ==
    IF starts = {} THEN 0
    ELSE LET y == CHOOSE y \in starts : \A o \in starts : y <= o
         IN  1 + well_continues(state, x, y + 1, 1)

center_well(state, x) ==
    well_of_column(state, x,
        {y \in 0..(Rows - 1) : /\ cell(state, x, y) = 0
                               /\ cell(state, x - 1, y) = 1
                               /\ cell(state, x + 1, y) = 1})

left_well(state) ==
    well_of_column(state, 0,
        {y \in 0..(Rows - 1) : cell(state, 0, y) = 0 /\ cell(state, 1, y) = 1})

right_well(state) ==
    well_of_column(state, 9,
        {y \in 0..(Rows - 1) : cell(state, 9, y) = 0 /\ cell(state, 8, y) = 1})

\* get_wells: the searches of the left and of the right side are part of the
\* body of "for x in range(1, 9)"
get_wells(state) ==
    SumFn([x \in 1..8 |-> center_well(state, x) + left_well(state)
                          + right_well(state)], 1..8)

\* eltetris_score with its weights rounded to hundredths, in hundredths
eltetris_score(act) ==
    (-450) * get_landing_height(act.x, act.state)
    + 342 * get_complete_lines(act.state)
    - 322 * get_row_transitions(act.state)
    - 935 * get_column_transitions(act.state)
    - 790 * get_holes(act.state)
    - 339 * get_wells(act.state)

\* the features ElTetrisAgent computes of an action
eltetris_features(act) ==
    [landing_height     |-> get_landing_height(act.x, act.state),
     complete_lines     |-> get_complete_lines(act.state),
     row_transitions    |-> get_row_transitions(act.state),
     column_transitions |-> get_column_transitions(act.state),
     holes              |-> get_holes(act.state),
     wells              |-> get_wells(act.state),
     center_wells       |-> [x \in 1..8 |-> center_well(act.state, x)],
     score              |-> eltetris_score(act)]

\* no scoring call has been made yet
NoFeatures == [score |-> 0]

----------------------------------------------------------------------------
(* Agents: replay memory                                                   *)

\* the agents that can be trained
AgentTypes == {"standard_new", "prioritized_new", "standard_old"}

\* the agents that can only play
PlayAgentTypes == {"random_new", "random_old", "eltetris"}

\* the agents whose act is handed the list of possible actions
NewAgentTypes == {"standard_new", "prioritized_new", "random_new", "eltetris"}

\* the Python value None where an action (x, rot, state) is expected
None == [x |-> -1, rot |-> -1, state |-> {}]

\* variant: a full queue drops its newest entry
deque_append_drop_right(queue, maxlen, entry) ==
    IF Len(queue) >= maxlen
    THEN SubSeq(queue, 1, Len(queue) - 1) \o <<entry>>
    ELSE Append(queue, entry)

\* deque(maxlen).append: a full deque drops its leftmost entry first
deque_append(queue, maxlen, entry) ==
    IF Len(queue) >= maxlen THEN Tail(queue) \o <<entry>>
    ELSE Append(queue, entry)

\* key=lambda order: (order[0], order[1]), compared as tuples
key_less(a, b) ==
    \/ a.priority < b.priority
    \/ (a.priority = b.priority /\ a.insertion < b.insertion)

\* sorted(..., reverse=True) is stable: an entry goes behind every entry whose
\* key is not smaller than its own
RECURSIVE sorted_reverse(_)
sorted_reverse(queue) ==
    IF queue = << >> THEN << >>
    ELSE LET n     == Len(queue)
             front == sorted_reverse(SubSeq(queue, 1, n - 1))
             entry == queue[n]
             ahead == SelectSeq(front, LAMBDA e : ~key_less(e, entry))
             after == SelectSeq(front, LAMBDA e : key_less(e, entry))
         IN  ahead \o <<entry>> \o after

\* size of the batch: the whole memory while it is smaller than batch_size
sample_size(memory_len, bsize) ==
    IF memory_len < bsize THEN memory_len ELSE bsize

\* random.sample(population, size): any choice of size distinct positions,
\* given as the number of times every position was drawn
random_sample(population_len, size) ==
    {[i \in 1..population_len |-> IF i \in chosen THEN 1 ELSE 0] :
        chosen \in {c \in SUBSET (1..population_len) : Cardinality(c) = size}}

\* the entry appended by insert_experience
new_entry(type, count, experience) ==
    IF type = "prioritized_new"
    THEN [priority |-> inf, insertion |-> count, experience |-> experience]
    ELSE experience

\* variant: the value of the next state is predicted by the Q network itself
training_target_own_prediction(experience, q_weights, target_weights) ==
    IF experience.terminated
    THEN [reward |-> experience.reward, bootstrap |-> {}]
    ELSE [reward |-> experience.reward,
          bootstrap |-> {[weights |-> q_weights,
                          input |-> experience.next_state]}]

\* the updated Q value of one experience of the batch: the reward alone for
\* a final experience, otherwise reward + gamma * (prediction of the target
\* network for the next state of the experience; DQLAgentOld takes np.amax
\* of the four outputs).  The prediction is kept symbolic: the weights that
\* made it and the input it was made for.
training_target(experience, q_weights, target_weights) ==
    IF experience.terminated
    THEN [reward |-> experience.reward, bootstrap |-> {}]
    ELSE [reward |-> experience.reward,
          bootstrap |-> {[weights |-> target_weights,
                          input |-> experience.next_state]}]

\* states_predictions handed to q_network.fit: for every position drawn,
\* the updated Q value of the experience at that position
fit_targets(memory, drawn, q_weights, target_weights) ==
    {<<i, training_target(memory[i], q_weights, target_weights)>> :
        i \in {j \in DOMAIN memory : drawn[j] > 0}}

\* variant: a training step also copies the Q network into the target network
target_after_fit_copied(target_weights, q_weights) == q_weights

\* a training step only calls predict on the target network
target_after_fit(target_weights, q_weights) == target_weights

\* _learn_from_replay of DQLAgentNew / DQLAgentOld on the given memory: a
\* batch is drawn, its targets are computed and the Q network is fitted once
LearnPlain(memory) ==
    /\ \E drawn \in random_sample(Len(memory),
                                  sample_size(Len(memory), batch_size)) :
          /\ batch' = drawn
          /\ targets' = fit_targets(memory, drawn, q_network, target_network)
    /\ q_network' = q_network + 1
    /\ raised' = FALSE
    /\ trained' = TRUE

\* _learn_from_replay of PrioritizedAgentNew:
\* np.random.choice(self.sorted_queue, ...) is handed a list of
\* (priority, insertion, experience) tuples, which is not 1-dimensional:
\* the call raises ValueError before anything is drawn or trained, so the
\* targets, the fit and the update of the priorities are never reached
LearnPrioritized ==
    /\ batch' = << >>
    /\ targets' = {}
    /\ raised' = TRUE
    /\ trained' = TRUE
    /\ UNCHANGED q_network

\* np.random.choice(population, size, False, probabilities): the batches the
\* call can return, as the ranks (positions of sorted_queue) drawn, in batch
\* order
choice_orders(population_len, size) ==
    {drawn \in [1..size -> 1..population_len] :
        \A i, j \in 1..size : i # j => drawn[i] # drawn[j]}

\* weight = ((1 / len(experience_replay)) * (1 / probabilities[i])) ** beta,
\* for i the position in the batch: the rank whose probability is used
weight_probability_rank(drawn, i) == i

\* agent.insert_experience(...): what it does to the agent
InsertExperience(experience) ==
    LET entry  == new_entry(agent_type, insertion, experience)
        memory == deque_append(experience_replay, experience_replay_size, entry)
    IN  /\ experience_replay' = memory
        /\ inserted' = Append(inserted, experience)
        /\ last_call' = "insert_experience"
        /\ UNCHANGED <<insertion, current_epoch, epsilon, explored,
                       agent_config>>
        /\ CASE agent_type = "standard_new" ->
                   /\ LearnPlain(memory)
                   /\ target_network' =
                          target_after_fit(target_network, q_network')
                   /\ UNCHANGED sorted_queue
             [] agent_type = "prioritized_new" ->
                   /\ sorted_queue' = sorted_reverse(memory)
                   /\ LearnPrioritized
                   /\ UNCHANGED target_network
             [] agent_type = "standard_old" ->
                   /\ raised' = FALSE
                   /\ trained' = FALSE
                   /\ UNCHANGED <<sorted_queue, batch, targets, q_network,
                                  target_network>>

\* beta is held as a whole number of 1 / beta_unit(total_epochs): in that
\* unit beta_increment = (1 - 0.4) / (total_epochs * 0.75) is the whole
\* number 8
beta_unit(total) == 10 * total

\* self.beta = 0.4
initial_beta(total) == 4 * total

beta_increment == 8

\* Epsilons are held as whole numbers of 1 / (1000 * epsilon_unit): in that
\* unit the division that computes the decay is exact.
epsilon_unit(total, percentage) == total * percentage

\* epochs_to_reduce = (total_epochs * epsilon_percentage) / 100
\* epsilon_decay = (epsilon - minimum_epsilon) / epochs_to_reduce,
\* for epsilon and minimum_epsilon given in thousandths
main_epsilon_decay(eps, minimum) == (eps - minimum) * 100

\* epsilon = initial_epsilon - epsilon_decay * current_epoch, not below
\* minimum_epsilon
decayed_epsilon(initial, decay, minimum, epoch) ==
    LET eps == initial - decay * epoch
    IN  IF eps < minimum THEN minimum ELSE eps

\* variant: the target network is overwritten before the training step
update_target_network_before_fit(q_before, q_after) == q_before

\* _update_target_network after the training step of finish_epoch: the
\* target network becomes the Q network as it is then
update_target_network(q_before, q_after) == q_after

\* agent.finish_epoch(lines, score): the final training step, the copy of the
\* Q network into the target network, the decay of epsilon and the epoch
\* counter.  An exception of the training step leaves the rest of the method
\* undone.
FinishEpoch ==
    /\ last_call' = "finish_epoch"
    /\ IF agent_type = "prioritized_new"
       THEN /\ LearnPrioritized
            /\ UNCHANGED <<target_network, current_epoch, epsilon>>
       ELSE /\ LearnPlain(experience_replay)
            /\ target_network' = update_target_network(q_network, q_network')
            /\ epsilon' = decayed_epsilon(initial_epsilon, epsilon_decay,
                                          minimum_epsilon, current_epoch)
            /\ current_epoch' = current_epoch + 1
    /\ UNCHANGED <<experience_replay, sorted_queue, insertion, inserted,
                   explored, agent_config>>

\* act(actions): does the call end with an exception?
\*   DQLAgentNew (and PrioritizedAgentNew, which inherits act): np.argmax and
\*     np.random.choice(np.arange(0, 0)) raise ValueError on an empty list
\*   RandomAgentNew: np.random.choice(actions) raises ValueError, on an empty
\*     list and on a list of (x, rot, state) tuples alike
\*   ElTetrisAgent: the loop over the actions is skipped, nothing raises
act_raises(type, actions) ==
    CASE type \in {"standard_new", "prioritized_new"} -> actions = << >>
      [] type = "random_new" -> TRUE
      [] type = "eltetris" -> FALSE
      [] OTHER -> FALSE

\* The Q network is a function of its weights and of its input; the model
\* takes this one for q_network.predict
predict(weights, state) ==
    (weights + SumFn([c \in state |-> c[1] + c[2]], state)) % 3

\* q_values = self.q_network.predict(np.array(states), ...)
q_values(weights, actions) ==
    [i \in DOMAIN actions |-> predict(weights, actions[i].state)]

\* variant: the last index of the maximum
argmax_last(values) ==
    CHOOSE i \in DOMAIN values :
        /\ \A j \in DOMAIN values : values[j] <= values[i]
        /\ \A j \in DOMAIN values : j > i => values[j] < values[i]

\* np.argmax: the first index of the maximum
argmax(values) ==
    CHOOSE i \in DOMAIN values :
        /\ \A j \in DOMAIN values : values[j] <= values[i]
        /\ \A j \in DOMAIN values : j < i => values[j] < values[i]

\* float('-inf'): below the score of every state
minus_infinity == -2000000000

\* ElTetrisAgent.act: the loop "for action in actions" from index i on
RECURSIVE chosen_from(_, _, _, _)
chosen_from(actions, i, chosen_action, chosen_score) ==
    IF i > Len(actions) THEN chosen_action
    ELSE LET action_score == eltetris_score(actions[i])
         IN  IF action_score > chosen_score
             THEN chosen_from(actions, i + 1, actions[i], action_score)
             ELSE chosen_from(actions, i + 1, chosen_action, chosen_score)

\* np.random.rand() < self.epsilon: the branches act can take, TRUE for the
\* random action; rand() lies in [0, 1), one is the epsilon 1.0
act_explores(type, eps, one) ==
    IF type \in {"standard_new", "prioritized_new"}
    THEN {b \in BOOLEAN : (b => eps > 0) /\ (~b => eps < one)}
    ELSE {FALSE}

\* act(actions): the values the call may return when it does not raise.
\*   DQLAgentNew: a random action or the action with the best Q value
\*   ElTetrisAgent: chosen_action, which is still the placeholder None when
\*     the list is empty, otherwise the best scored action of the list
act_returns(type, actions, weights, was_random) ==
    CASE type = "eltetris" -> {chosen_from(actions, 1, None, minus_infinity)}
      [] was_random -> {actions[i] : i \in DOMAIN actions}
      [] OTHER -> {actions[argmax(q_values(weights, actions))]}

\* agent.act(actions): what it does to the agent (the networks are only
\* asked for predictions)
Act(actions) ==
    /\ last_call' = "act"
    /\ raised' = act_raises(agent_type, actions)
    /\ trained' = FALSE
    /\ explored' \in
          IF act_raises(agent_type, actions) THEN {FALSE}
          ELSE act_explores(agent_type, epsilon,
                            1000 * epsilon_unit(total_epochs,
                                                epsilon_percentage))
    /\ UNCHANGED <<experience_replay, sorted_queue, insertion, inserted,
                   batch, targets, q_network, target_network, current_epoch,
                   epsilon, agent_config>>

\* weights of a file handed to load_weights
loaded_weights == 100

\* agent.load_weights(weights) with a file: both networks get its weights
LoadWeights ==
    /\ q_network' = loaded_weights
    /\ target_network' = q_network'
    /\ last_call' = "load_weights"
    /\ raised' = FALSE
    /\ trained' = FALSE
    /\ UNCHANGED <<experience_replay, sorted_queue, insertion, inserted,
                   batch, targets, current_epoch, epsilon, explored,
                   agent_config>>

----------------------------------------------------------------------------
(* The training loop main_ai_learn_new, with the logical clock of the fast *)
(* training mode and the default agent (standard_new).                     *)

\* Outcomes of random.shuffle tried for a bag: three rotations of one order
BaseOrder == <<"I", "S", "Z", "L", "O", "T", "J">>

BagOrders ==
    {[i \in 1..7 |-> BaseOrder[((i + k - 1) % 7) + 1]] : k \in {0, 3, 5}}

\* Choices of the agent that are followed without counting as free actions:
\* a game whose first bag is BaseOrder builds a tower in the two left columns.
OpeningBook ==
    << [shape |-> "I", x |-> 0, rot |-> 0],
       [shape |-> "S", x |-> 0, rot |-> 1],
       [shape |-> "Z", x |-> 1, rot |-> 1],
       [shape |-> "L", x |-> 0, rot |-> 1],
       [shape |-> "O", x |-> 1, rot |-> 0],
       [shape |-> "T", x |-> 0, rot |-> 1] >>

\* a game whose bags are BaseOrder and that drops every piece where it
\* spawns builds a tower under the spawn column and is over with the ninth
\* piece
SpawnColumnBook ==
    [i \in 1..9 |-> [shape |-> BaseOrder[((i - 1) % 7) + 1],
                     x |-> SpawnX, rot |-> 0]]

\* a game whose bags are BaseOrder and that builds a tower at the left wall,
\* fills the row above the floor but two cells and then places T next to the
\* tower
OverhangBook ==
    << [shape |-> "I", x |-> 0, rot |-> 0],
       [shape |-> "S", x |-> 1, rot |-> 1],
       [shape |-> "Z", x |-> 1, rot |-> 0],
       [shape |-> "L", x |-> 0, rot |-> 1],
       [shape |-> "O", x |-> 2, rot |-> 0],
       [shape |-> "T", x |-> 1, rot |-> 3],
       [shape |-> "J", x |-> 1, rot |-> 3],
       [shape |-> "I", x |-> 0, rot |-> 0],
       [shape |-> "S", x |-> 1, rot |-> 0],
       [shape |-> "Z", x |-> 6, rot |-> 1],
       [shape |-> "L", x |-> 8, rot |-> 2],
       [shape |-> "O", x |-> 7, rot |-> 0],
       [shape |-> "T", x |-> 3, rot |-> 3] >>

\* a game that has cleared the bottom row with I(4,1) S(1,0) Z(6,0) L(8,1)
\* goes on with these placements and clears a row again with the last one
LineLimitBook ==
    << [shape |-> "O", x |-> 1, rot |-> 0],
       [shape |-> "T", x |-> 3, rot |-> 0],
       [shape |-> "J", x |-> 6, rot |-> 0],
       [shape |-> "I", x |-> 9, rot |-> 0] >>

\* a game whose bags are BaseOrder and that builds a tower under the spawn
\* column whose last piece is locked in the cells where the next one spawns
BlockedSpawnBook ==
    [i \in 1..11 |->
        [shape |-> BaseOrder[((i - 1) % 7) + 1],
         x     |-> IF i = 9 THEN 6 ELSE IF i = 10 THEN 5 ELSE 4,
         rot   |-> 0]]

\* a game whose first two bags are BaseOrder and whose third bag starts with
\* T, J: the pile reaches row 2 left of the spawn column, and the J placed
\* last is chosen with three rotations
EarlyLockBook ==
    << [shape |-> "I", x |-> 6, rot |-> 1],
       [shape |-> "S", x |-> 3, rot |-> 0],
       [shape |-> "Z", x |-> 4, rot |-> 1],
       [shape |-> "L", x |-> 6, rot |-> 1],
       [shape |-> "O", x |-> 3, rot |-> 0],
       [shape |-> "T", x |-> 4, rot |-> 2],
       [shape |-> "J", x |-> 3, rot |-> 3],
       [shape |-> "I", x |-> 6, rot |-> 1],
       [shape |-> "S", x |-> 3, rot |-> 0],
       [shape |-> "Z", x |-> 3, rot |-> 0],
       [shape |-> "L", x |-> 6, rot |-> 1],
       [shape |-> "O", x |-> 3, rot |-> 0],
       [shape |-> "T", x |-> 6, rot |-> 1],
       [shape |-> "J", x |-> 3, rot |-> 1],
       [shape |-> "T", x |-> 6, rot |-> 2],
       [shape |-> "J", x |-> 5, rot |-> 3] >>

OpeningBooks ==
    <<OpeningBook, SpawnColumnBook, OverhangBook, LineLimitBook,
      BlockedSpawnBook, EarlyLockBook>>

\* the books a game follows to their last placement once it is in them
ClosedBooks == {3, 5, 6}

\* the books only a game that starts in them follows
GivenBooks == {5, 6}

\* values of book: no book move yet in this game / a free choice was made
NoBook == 0
OffBook == -1

\* get_shape: the shape popped and the list left; an empty list is refilled
\* by bag_randomizer first
get_shape(shapes_list) ==
    {[shape |-> l[1], list |-> Tail(l)] :
        l \in IF shapes_list = << >> THEN BagOrders ELSE {shapes_list}}

\* initialize_game followed by the agent of the default configuration
InitAgent(type, size, bsize, eps, minimum, total, percentage) ==
    /\ agent_type = type
    /\ experience_replay_size = size
    /\ batch_size = bsize
    /\ total_epochs = total
    /\ epsilon_percentage = percentage
    /\ epsilon = eps * epsilon_unit(total, percentage)
    /\ initial_epsilon = eps * epsilon_unit(total, percentage)
    /\ minimum_epsilon = minimum * epsilon_unit(total, percentage)
    /\ epsilon_decay = main_epsilon_decay(eps, minimum)
    /\ targets = {}
    /\ last_call = "__init__"
    /\ experience_replay = << >>
    /\ sorted_queue = << >>
    /\ insertion = 0
    /\ batch = << >>
    /\ raised = FALSE
    /\ trained = FALSE
    /\ q_network = 0
    /\ target_network = 0
    /\ current_epoch = 1
    /\ inserted = << >>
    /\ explored = FALSE
    /\ beta = IF type = "prioritized_new" THEN initial_beta(total) ELSE 0

InitGame ==
    /\ pc = "pre_loop"
    /\ locked_positions = {}
    /\ \E order \in BagOrders :
          /\ current_piece = Piece(SpawnX, SpawnY, order[1])
          /\ next_piece = order[2]
          /\ randomizer_shapes = SubSeq(order, 3, 7)
    /\ action = None
    /\ steps = << >>
    /\ poll_time = 0
    /\ fall_time = 0
    /\ run = TRUE
    /\ lines = 0
    /\ initial_state = {}
    /\ final_lines_cleared = 0
    /\ final_piece_depth = 0
    /\ locked_piece = Piece(SpawnX, SpawnY, "I")
    /\ locked_before_clear = {}
    /\ book_pos = 0
    /\ free_moves = 0
    /\ book = NoBook
    /\ loop_epoch = 1
    /\ scored_state = {}
    /\ locks = 0
    /\ games_played = 0
    /\ features = NoFeatures

Init ==
    /\ InitGame
    /\ InitAgent("standard_new", default_experience_replay_size,
                 default_batch_size, default_epsilon,
                 default_minimum_epsilon, MaxEpochs,
                 default_epsilon_percentage)

\* the agent follows opening book b (the one it has followed so far in
\* this game), or spends one of its free choices
book_move(b, a) ==
    /\ book = b \/ (book = NoBook /\ b \notin GivenBooks)
    /\ book_pos < Len(OpeningBooks[b])
    /\ current_piece.shape = OpeningBooks[b][book_pos + 1].shape
    /\ a.x = OpeningBooks[b][book_pos + 1].x
    /\ a.rot = OpeningBooks[b][book_pos + 1].rot

\* PRE-LOOP: enumerate the actions, let the agent choose, build the steps
PreLoop ==
    /\ pc = "pre_loop"
    /\ LET possible_actions == generate_possible_actions(locked_positions,
                                                         current_piece)
           piece == piece_after_actions(locked_positions, current_piece)
       IN  /\ Act(possible_actions)
           \* initial_score = compute_heuristic_state_score(..., False)
           /\ current_piece' = heuristic_piece(locked_positions, piece, FALSE)
           /\ IF act_raises(agent_type, possible_actions)
              THEN \* the exception of agent.act ends the program
                   /\ pc' = "aborted"
                   /\ UNCHANGED <<locked_positions, next_piece,
                                  randomizer_shapes, action, steps, poll_time,
                                  fall_time, run, lines, initial_state,
                                  final_lines_cleared, final_piece_depth,
                                  locked_piece, locked_before_clear, book_pos,
                                  free_moves, book, loop_epoch, scored_state,
                                  locks, games_played, features>>
              ELSE \E a \in act_returns(agent_type, possible_actions,
                                        q_network, explored') :
                     /\ \/ \E b \in DOMAIN OpeningBooks :
                              /\ book_move(b, a)
                              /\ book' = b
                              /\ book_pos' = book_pos + 1
                              /\ UNCHANGED free_moves
                        \/ /\ free_moves < MaxFree
                           /\ book \notin ClosedBooks
                           /\ free_moves' = free_moves + 1
                           /\ book' = OffBook
                           /\ UNCHANGED book_pos
                     /\ action' = a
                     /\ steps' = generate_movement_sequence(a, piece)
                     /\ initial_state' = generate_state(locked_positions, piece)
                     /\ final_lines_cleared' = 0
                     /\ final_piece_depth' = 0
                     /\ locks' = 0
                     /\ pc' = "game_loop"
                     /\ UNCHANGED <<locked_positions, next_piece,
                                    randomizer_shapes, poll_time, fall_time,
                                    run, lines, locked_piece,
                                    locked_before_clear, loop_epoch,
                                    scored_state, games_played, features>>

\* GAME LOOP: one iteration of "while not loop_ended"
Tick ==
    /\ pc = "game_loop"
    /\ LET grid    == create_grid(locked_positions)
           \* fast mode: both counters advance by the polling speed
           polled  == poll_time + polling_speed > polling_speed
           falls   == fall_time + polling_speed > game_speed_ai
       IN  IF polled /\ steps = << >>
           THEN \* steps.popleft() raises on an empty queue
                /\ pc' = "aborted"
                /\ UNCHANGED game_vars
           ELSE
           LET \* 1 - if needed, execute an action
               input   == Head(steps)
               piece1  == IF polled
                          THEN process_inputs_piece(input, current_piece, grid)
                          ELSE current_piece
               change1 == polled /\ process_inputs_change(input)
               steps1  == IF polled THEN Tail(steps) ELSE steps
               \* 2 - if needed, move the piece downwards
               lowered == [piece1 EXCEPT !.y = @ + 1]
               blocked == falls /\ ~valid_space(lowered, grid) /\ lowered.y > 0
               piece2  == IF falls /\ ~blocked THEN lowered ELSE piece1
               change_piece == change1 \/ blocked
               \* place the current piece into the grid
               shape_pos == place_piece(piece2)
               grid2   == placed_grid(piece2, grid)
               \* the piece has been locked in place
               locked1 == locked_positions \cup shape_pos
               locked2 == IF change_piece THEN clear_rows(grid2, locked1)
                          ELSE locked_positions
               cleared == IF change_piece
                          THEN Cardinality(removed_lines(grid2)) ELSE 0
               lines1  == lines + cleared
               run1    == ~check_defeat(locked2) /\ lines1 < max_lines_training
               loop_ended == change_piece \/ ~run1 \/ Len(steps1) <= 0
           IN  /\ poll_time' = IF polled THEN 0 ELSE poll_time + polling_speed
               /\ fall_time' = IF falls THEN 0 ELSE fall_time + polling_speed
               /\ steps' = steps1
               /\ locked_positions' = locked2
               /\ lines' = lines1
               /\ run' = run1
               /\ IF change_piece
                  THEN /\ final_piece_depth' =
                            SetMax({p[2] : p \in shape_pos} \cup {-1}, -1)
                       /\ final_lines_cleared' = cleared
                       /\ locked_piece' = piece2
                       /\ locked_before_clear' = locked1
                       /\ scored_state' = generate_state(locked1, piece2)
                       /\ locks' = locks + 1
                       /\ \E drawn \in get_shape(randomizer_shapes) :
                             /\ current_piece' = Piece(SpawnX, SpawnY, next_piece)
                             /\ next_piece' = drawn.shape
                             /\ randomizer_shapes' = drawn.list
                  ELSE /\ current_piece' = piece2
                       /\ UNCHANGED <<final_piece_depth, final_lines_cleared,
                                      locked_piece, locked_before_clear,
                                      scored_state, locks, next_piece,
                                      randomizer_shapes>>
               /\ pc' = IF loop_ended THEN "post_loop" ELSE "game_loop"
               /\ UNCHANGED <<action, initial_state, book_pos, free_moves,
                              book, loop_epoch, games_played>>
    /\ UNCHANGED <<agent_vars, features>>

\* variant: the board reached is stored as the state the action was taken in
Experience_states_swapped(state, reward, next_state, terminated) ==
    [state |-> next_state, reward |-> reward, next_state |-> state,
     terminated |-> terminated]

\* experience = (state, reward, next_state, terminated)
Experience(state, reward, next_state, terminated) ==
    [state |-> state, reward |-> reward, next_state |-> next_state,
     terminated |-> terminated]

\* POST-LOOP: compute the reward and store the experience
PostLoop ==
    /\ pc = "post_loop"
    /\ InsertExperience(Experience(initial_state,
                                   compute_reward_new(~run, final_lines_cleared,
                                                      final_piece_depth),
                                   action.state, ~run))
    /\ pc' = IF run THEN "pre_loop" ELSE "game_end"
    /\ games_played' = IF run THEN games_played ELSE games_played + 1
    /\ UNCHANGED <<locked_positions, current_piece, next_piece,
                   randomizer_shapes, action, steps, poll_time, fall_time, run,
                   lines, initial_state, final_lines_cleared,
                   final_piece_depth, locked_piece, locked_before_clear,
                   book_pos, free_moves, book, loop_epoch, scored_state, locks,
                   features>>

\* variant: the last epoch is not played
epoch_loop_continues_below(epoch, total) == epoch < total

\* "while current_epoch <= total_epochs"
epoch_loop_continues(epoch, total) == epoch <= total

\* GAME END: advance the epoch, notify the agent; then the epoch loop either
\* starts the next game with initialize_game or is left
GameEnd ==
    /\ pc = "game_end"
    /\ loop_epoch' = loop_epoch + 1
    /\ FinishEpoch
    /\ UNCHANGED <<action, steps, initial_state, final_lines_cleared,
                   final_piece_depth, locked_piece, locked_before_clear,
                   free_moves, scored_state, locks, games_played, features>>
    /\ IF agent_type = "prioritized_new"
       THEN \* the exception of finish_epoch ends the program
            /\ pc' = "aborted"
            /\ UNCHANGED <<locked_positions, current_piece, next_piece,
                           randomizer_shapes, poll_time, fall_time, run,
                           lines, book_pos, book>>
       ELSE IF epoch_loop_continues(loop_epoch + 1, total_epochs)
       THEN /\ pc' = "pre_loop"
            /\ locked_positions' = {}
            /\ \E order \in BagOrders :
                  /\ current_piece' = Piece(SpawnX, SpawnY, order[1])
                  /\ next_piece' = order[2]
                  /\ randomizer_shapes' = SubSeq(order, 3, 7)
            /\ poll_time' = 0
            /\ fall_time' = 0
            /\ run' = TRUE
            /\ lines' = 0
            /\ book_pos' = 0
            /\ book' = NoBook
       ELSE /\ pc' = "done"
            /\ UNCHANGED <<locked_positions, current_piece, next_piece,
                           randomizer_shapes, poll_time, fall_time, run,
                           lines, book_pos, book>>

Next == PreLoop \/ Tick \/ PostLoop \/ GameEnd

Spec == Init /\ [][Next]_vars

----------------------------------------------------------------------------
(* The agents on their own: a caller that constructs one agent and calls   *)
(* its public methods.  An exception is reported to the caller (raised)    *)
(* and leaves the agent as it was when the exception was thrown.           *)

\* the experiences handed to the agent: every second one is final
Experiences ==
    {[state |-> n, reward |-> 10 * n, next_state |-> n + MaxExperience,
      terminated |-> (n % 2 = 0)] : n \in 1..MaxExperience}

\* the values of -eps and -mep tried, in thousandths: the defaults, a higher
\* minimum, and an initial epsilon below the default minimum
EpsilonArguments == {<<default_epsilon, default_minimum_epsilon>>,
                     <<1000, 100>>, <<10, default_minimum_epsilon>>}

InitBuffer ==
    /\ pc = "agent"
    /\ locked_positions = {}
    /\ current_piece = Piece(SpawnX, SpawnY, BaseOrder[1])
    /\ next_piece = BaseOrder[2]
    /\ randomizer_shapes = SubSeq(BaseOrder, 3, 7)
    /\ action = None
    /\ steps = << >>
    /\ poll_time = 0
    /\ fall_time = 0
    /\ run = TRUE
    /\ lines = 0
    /\ initial_state = {}
    /\ final_lines_cleared = 0
    /\ final_piece_depth = 0
    /\ locked_piece = Piece(SpawnX, SpawnY, "I")
    /\ locked_before_clear = {}
    /\ book_pos = 0
    /\ free_moves = 0
    /\ book = NoBook
    /\ loop_epoch = 1
    /\ scored_state = {}
    /\ locks = 0
    /\ games_played = 0
    /\ features = NoFeatures
    /\ \E type \in AgentTypes \cup PlayAgentTypes, size \in 1..MaxCapacity,
          bsize \in 1..MaxBatch, eps \in EpsilonArguments :
          InitAgent(type, size, bsize, eps[1], eps[2], MaxEpochs,
                    default_epsilon_percentage)

\* sys.exit() of the methods a play-only agent does not support
AgentExits ==
    /\ agent_type \in PlayAgentTypes
    /\ pc' = "exited"
    /\ UNCHANGED <<agent_vars, game_vars>>

\* the arguments the training loop of the agent passes to insert_experience:
\* main_ai_learn_new passes (initial_state, reward, final_state, not run),
\* main_ai_learn_old (current_state, action, reward, new_state, final_state)
insert_experience_arguments(type) == IF type \in NewAgentTypes THEN 4 ELSE 5

\* the parameters of insert_experience besides self: the play-only agents
\* and the old-approach agents take (state, action, reward, next_state,
\* terminated), DQLAgentNew and PrioritizedAgentNew take no action
insert_experience_parameters(type) ==
    IF type \in {"standard_new", "prioritized_new"} THEN 4 ELSE 5

\* a call with a missing argument raises TypeError before the body runs
CallRaisesTypeError ==
    /\ pc' = "aborted"
    /\ UNCHANGED <<agent_vars, game_vars>>

\* agent.initialize_learning_structure(), the first call of the learn mode:
\* the folders and the CSV file it creates are no part of the state
CallInitializeLearningStructure ==
    /\ pc = "agent"
    /\ last_call = "__init__"
    /\ \/ AgentExits
       \/ /\ agent_type \in AgentTypes
          /\ UNCHANGED vars

CallInsertExperience ==
    /\ pc = "agent"
    /\ Len(inserted) < MaxInserts
    /\ \/ /\ agent_type \in PlayAgentTypes
          /\ IF insert_experience_arguments(agent_type)
                   # insert_experience_parameters(agent_type)
             THEN CallRaisesTypeError
             ELSE AgentExits
       \/ /\ agent_type \in AgentTypes
          /\ \E experience \in Experiences : InsertExperience(experience)
          /\ UNCHANGED <<pc, game_vars>>

\* finish_epoch is called at the end of a game, which has recorded at least
\* one experience
CallFinishEpoch ==
    /\ pc = "agent"
    /\ \/ AgentExits
       \/ /\ agent_type \in AgentTypes
          /\ experience_replay # << >>
          /\ current_epoch <= total_epochs
          /\ FinishEpoch
          /\ UNCHANGED <<pc, game_vars>>

\* load_weights is called on an agent that has not been trained yet
CallLoadWeights ==
    /\ pc = "agent"
    /\ agent_type \in AgentTypes
    /\ last_call = "__init__"
    /\ LoadWeights
    /\ UNCHANGED <<pc, game_vars>>

\* an action (x, rot, state) of a candidate list
Candidate(x, rot) == [x |-> x, rot |-> rot, state |-> {<<x, Rows - 1>>}]

\* the candidate lists handed to act
CandidateLists ==
    {<< >>, <<Candidate(0, 0)>>, <<Candidate(0, 0), Candidate(1, 0)>>,
     <<Candidate(1, 0), Candidate(0, 0), Candidate(0, 1)>>}

\* action, _ = agent.act(actions): the game loop gets the returned action
\* unless the call raised
CallActOn(actions) ==
    /\ pc = "agent"
    /\ agent_type \in NewAgentTypes
    /\ Act(actions)
    /\ IF act_raises(agent_type, actions) THEN UNCHANGED action
       ELSE action' \in act_returns(agent_type, actions, q_network, explored')
    /\ UNCHANGED <<pc, locked_positions, current_piece, next_piece,
                   randomizer_shapes, steps, poll_time, fall_time, run, lines,
                   initial_state, final_lines_cleared, final_piece_depth,
                   locked_piece, locked_before_clear, book_pos, free_moves,
                   book, loop_epoch, scored_state, locks, games_played,
                   features>>

CallAct == \E actions \in CandidateLists : CallActOn(actions)

NextBuffer ==
    \/ CallInitializeLearningStructure
    \/ CallInsertExperience
    \/ CallFinishEpoch
    \/ CallLoadWeights
    \/ CallAct

SpecBuffer == InitBuffer /\ [][NextBuffer]_vars

----------------------------------------------------------------------------
(* clear_rows on a family of boards                                        *)

\* the rows a board of the family is stacked from: full, a gap in the first
\* column, a gap in the last column, only the first column
RowPatterns ==
    {0..(Columns - 1), 1..(Columns - 1), 0..(Columns - 2), {0}}

\* the boards of the family: a stack of up to MaxStack rows on the floor
Board(rows) ==
    UNION {{<<x, Rows - i>> : x \in rows[i]} : i \in DOMAIN rows}

Boards ==
    UNION {{Board(rows) : rows \in [1..h -> RowPatterns]} : h \in 0..MaxStack}

InitClearRows ==
    /\ pc = "lock"
    /\ locked_positions \in Boards
    /\ locked_before_clear = {}
    /\ current_piece = Piece(SpawnX, SpawnY, BaseOrder[1])
    /\ next_piece = BaseOrder[2]
    /\ randomizer_shapes = SubSeq(BaseOrder, 3, 7)
    /\ action = None
    /\ steps = << >>
    /\ poll_time = 0
    /\ fall_time = 0
    /\ run = TRUE
    /\ lines = 0
    /\ initial_state = {}
    /\ final_lines_cleared = 0
    /\ final_piece_depth = 0
    /\ locked_piece = Piece(SpawnX, SpawnY, "I")
    /\ book_pos = 0
    /\ free_moves = 0
    /\ book = NoBook
    /\ loop_epoch = 1
    /\ scored_state = {}
    /\ locks = 0
    /\ games_played = 0
    /\ features = NoFeatures
    /\ InitAgent("standard_new", default_experience_replay_size,
                 default_batch_size, default_epsilon, default_minimum_epsilon,
                 MaxEpochs, default_epsilon_percentage)

\* cleared_rows = clear_rows(grid, locked_positions) on the grid of the board
CallClearRows ==
    /\ pc = "lock"
    /\ LET grid == create_grid(locked_positions)
       IN  /\ locked_positions' = clear_rows(grid, locked_positions)
           /\ final_lines_cleared' = Cardinality(removed_lines(grid))
           /\ lines' = lines + Cardinality(removed_lines(grid))
    /\ locked_before_clear' = locked_positions
    /\ pc' = "cleared"
    /\ UNCHANGED <<agent_vars, current_piece, next_piece, randomizer_shapes,
                   action, steps, poll_time, fall_time, run, initial_state,
                   final_piece_depth, locked_piece, book_pos, free_moves,
                   book, loop_epoch, scored_state, locks, games_played,
                   features>>

NextClearRows == CallClearRows

SpecClearRows == InitClearRows /\ [][NextClearRows]_vars

----------------------------------------------------------------------------
(* The training loop taken up in the middle of a game                      *)

\* the locked positions left by I(4,1) S(1,0) Z(6,0) L(8,1) once the bottom
\* row has been cleared
AfterFirstLine ==
    {<<8, Rows - 2>>, <<1, Rows - 1>>, <<2, Rows - 1>>, <<5, Rows - 1>>,
     <<6, Rows - 1>>, <<8, Rows - 1>>}

\* the lines a game in that position has cleared: the one line of its first
\* four pieces, or one line less than max_lines_training
LinesSoFar == {1, max_lines_training - 1}

\* main_ai_learn_new before the fifth piece of the first bag is placed
InitLineLimit ==
    /\ pc = "pre_loop"
    /\ locked_positions = AfterFirstLine
    /\ current_piece = Piece(SpawnX, SpawnY, BaseOrder[5])
    /\ next_piece = BaseOrder[6]
    /\ randomizer_shapes = SubSeq(BaseOrder, 7, 7)
    /\ action = None
    /\ steps = << >>
    /\ poll_time = 0
    /\ fall_time = 0
    /\ run = TRUE
    /\ lines \in LinesSoFar
    /\ initial_state = {}
    /\ final_lines_cleared = 0
    /\ final_piece_depth = 0
    /\ locked_piece = Piece(SpawnX, SpawnY, "I")
    /\ locked_before_clear = {}
    /\ book_pos = 0
    /\ free_moves = 0
    /\ book = NoBook
    /\ loop_epoch = 1
    /\ scored_state = {}
    /\ locks = 0
    /\ games_played = 0
    /\ features = NoFeatures
    /\ InitAgent("standard_new", default_experience_replay_size,
                 default_batch_size, default_epsilon,
                 default_minimum_epsilon, MaxEpochs,
                 default_epsilon_percentage)

SpecLineLimit == InitLineLimit /\ [][Next]_vars

\* main_ai_learn_new called for a number of epochs with an agent whose first
\* game follows book b
InitInBook(b, epochs) ==
    /\ pc = "pre_loop"
    /\ locked_positions = {}
    /\ current_piece = Piece(SpawnX, SpawnY, BaseOrder[1])
    /\ next_piece = BaseOrder[2]
    /\ randomizer_shapes = SubSeq(BaseOrder, 3, 7)
    /\ action = None
    /\ steps = << >>
    /\ poll_time = 0
    /\ fall_time = 0
    /\ run = TRUE
    /\ lines = 0
    /\ initial_state = {}
    /\ final_lines_cleared = 0
    /\ final_piece_depth = 0
    /\ locked_piece = Piece(SpawnX, SpawnY, "I")
    /\ locked_before_clear = {}
    /\ book_pos = 0
    /\ free_moves = 0
    /\ book = b
    /\ loop_epoch = 1
    /\ scored_state = {}
    /\ locks = 0
    /\ games_played = 0
    /\ features = NoFeatures
    /\ InitAgent("standard_new", default_experience_replay_size,
                 default_batch_size, default_epsilon,
                 default_minimum_epsilon, epochs,
                 default_epsilon_percentage)

\* the first game builds the tower of BlockedSpawnBook
InitBlockedSpawn == InitInBook(5, MaxEpochs)

SpecBlockedSpawn == InitBlockedSpawn /\ [][Next]_vars

\* a run of one epoch whose game is the game of EarlyLockBook
InitEarlyLock == InitInBook(6, 1)

\* an iteration of "while not loop_ended", told by the polling timer, which
\* every iteration either advances or sets back to 0
LoopIterates ==
    /\ pc = "game_loop"
    /\ poll_time' \in {0, poll_time + polling_speed}
    /\ poll_time' # poll_time

\* the iterations of the inner loop are eventually taken: "while not
\* loop_ended" runs on its own and waits for nothing outside it
SpecEarlyLock == InitEarlyLock /\ [][Next]_vars /\ WF_poll_time(LoopIterates)

----------------------------------------------------------------------------
(* The scoring functions on a family of boards                             *)

\* the columns whose cells vary over the family
FeatureColumns == {0, 1, Columns - 1}

\* the rows whose cells vary over the family
FeatureRows == (Rows - MaxFeatureRows)..(Rows - 1)

\* the boards of the family: the other columns are filled up to the top of
\* the rows that vary, every subset of the cells that vary is filled
FeatureBoards ==
    {{<<x, y>> : x \in (0..(Columns - 1)) \ FeatureColumns, y \in FeatureRows}
        \cup cells : cells \in SUBSET (FeatureColumns \X FeatureRows)}

InitFeatures ==
    /\ pc = "board"
    /\ locked_positions \in FeatureBoards
    /\ locked_before_clear = {}
    /\ current_piece = Piece(SpawnX, SpawnY, BaseOrder[1])
    /\ next_piece = BaseOrder[2]
    /\ randomizer_shapes = SubSeq(BaseOrder, 3, 7)
    /\ action = None
    /\ steps = << >>
    /\ poll_time = 0
    /\ fall_time = 0
    /\ run = TRUE
    /\ lines = 0
    /\ initial_state = {}
    /\ final_lines_cleared = 0
    /\ final_piece_depth = 0
    /\ locked_piece = Piece(SpawnX, SpawnY, "I")
    /\ book_pos = 0
    /\ free_moves = 0
    /\ book = NoBook
    /\ loop_epoch = 1
    /\ scored_state = {}
    /\ locks = 0
    /\ games_played = 0
    /\ features = NoFeatures
    /\ InitAgent("eltetris", default_experience_replay_size,
                 default_batch_size, default_epsilon, default_minimum_epsilon,
                 MaxEpochs, default_epsilon_percentage)

\* what the calls of the family leave alone
FeaturesFrame ==
    UNCHANGED <<agent_vars, locked_positions, next_piece, randomizer_shapes,
                steps, poll_time, fall_time, run, lines, initial_state,
                final_lines_cleared, final_piece_depth, locked_piece,
                locked_before_clear, book_pos, free_moves, book, loop_epoch,
                locks, games_played>>

\* compute_heuristic_state_score(locked_positions, current_piece, ...)
CallHeuristicStateScore ==
    /\ pc = "board"
    /\ \E piece_locked \in BOOLEAN :
          /\ features' = compute_heuristic_state_score(locked_positions,
                                                       current_piece,
                                                       piece_locked)
          /\ scored_state' = heuristic_state(locked_positions, current_piece,
                                             piece_locked)
          /\ current_piece' = heuristic_piece(locked_positions, current_piece,
                                              piece_locked)
    /\ pc' = "heuristic"
    /\ UNCHANGED action
    /\ FeaturesFrame

\* eltetris_score(action) of an action of the list of the board
CallElTetrisScore ==
    /\ pc = "board"
    /\ LET actions == generate_possible_actions(locked_positions,
                                                current_piece)
       IN  \E i \in DOMAIN actions :
              /\ action' = actions[i]
              /\ features' = eltetris_features(actions[i])
              /\ scored_state' = actions[i].state
    /\ current_piece' = piece_after_actions(locked_positions, current_piece)
    /\ pc' = "eltetris"
    /\ FeaturesFrame

\* the cells of the state that are empty and lie above some filled cell of
\* their column
covered_cells(state) ==
    {c \in (0..(Columns - 1)) \X (0..(Rows - 1)) :
        /\ c \notin state
        /\ \E y \in 0..(c[2] - 1) : <<c[1], y>> \in state}

\* the empty cells of the rows that vary and of the row above them that lie
\* above every covered cell of their column
ceiling_cells(state) ==
    {c \in (0..(Columns - 1)) \X ((Rows - MaxFeatureRows - 1)..(Rows - 1)) :
        /\ c \notin state
        /\ \A h \in covered_cells(state) : h[1] = c[1] => c[2] < h[2]}

\* one more cell is filled above the covered cells of its column and the
\* state is scored again
FillCeiling ==
    /\ pc = "heuristic"
    /\ \E c \in ceiling_cells(scored_state) :
          /\ scored_state' = scored_state \cup {c}
          /\ features' =
                [aggregate_height |-> compute_aggregate_height(scored_state'),
                 complete_lines   |-> compute_complete_lines(scored_state'),
                 holes            |-> compute_holes(scored_state'),
                 bumpiness        |-> compute_bumpiness(scored_state'),
                 score            |-> heuristic_score(scored_state')]
    /\ pc' = "ceiling"
    /\ UNCHANGED <<action, current_piece>>
    /\ FeaturesFrame

NextFeatures == CallHeuristicStateScore \/ CallElTetrisScore \/ FillCeiling

SpecFeatures == InitFeatures /\ [][NextFeatures]_vars

----------------------------------------------------------------------------
(* Properties of the placement enumerator and of the game loop (Spec)      *)

\* the enumerator is about to be called on a freshly spawned piece
AtEnumeration == pc = "pre_loop"

\* the list that call returns
Enumerated == generate_possible_actions(locked_positions, current_piece)

\* candidate (rot, x) is one of the actions of the list acts
Returned(acts, rot, x) ==
    \E i \in DOMAIN acts : acts[i].rot = rot /\ acts[i].x = x

\* every position on the way to candidate (rot, x) passes valid_space: the
\* piece after k rotations has sunk k rows, after m more single-column moves
\* it has sunk rot + m rows
AllStepsValid(piece, grid, rot, x) ==
    /\ \A k \in 1..rot :
          valid_space([piece EXCEPT !.rotation = piece.rotation + k,
                                    !.y = piece.y + k], grid)
    /\ \A m \in 1..Abs(piece.x - x) :
          valid_space([piece EXCEPT !.rotation = piece.rotation + rot,
                                    !.x = IF x > piece.x THEN piece.x + m
                                          ELSE piece.x - m,
                                    !.y = piece.y + rot + m], grid)

\* the position candidate (rot, x) ends at, before it is dropped
EndOfSteps(piece, rot, x) ==
    [piece EXCEPT !.rotation = piece.rotation + rot, !.x = x,
                  !.y = piece.y + rot + Abs(piece.x - x)]

\* C1 (as claimed): when the steps of an enumerated action have been played
\* by the game loop, one input and one gravity row per polled tick, the
\* piece is locked at the enumerated rest position: the locked board before
\* line clearing is the board of the action.
C1_LiveLocksAtEnumeratedRest ==
    pc = "post_loop" => create_grid(locked_before_clear) = action.state

\* C2: candidate (rot, x) is returned if and only if every position reached
\* by its rotation steps and single-column steps passes valid_space.
C2_ReturnedIffAllStepsValid ==
    AtEnumeration =>
        LET acts == Enumerated
            grid == create_grid(locked_positions)
        IN  \A rot \in 0..(Len(shapes(current_piece.shape)) - 1),
               x \in 0..(Columns - 1) :
                Returned(acts, rot, x) <=>
                    AllStepsValid(current_piece, grid, rot, x)

\* C2 witness: a candidate with an invalid intermediate position whose last
\* position is valid again is left out of the list
C2_Witness ==
    /\ AtEnumeration
    /\ LET acts == Enumerated
           grid == create_grid(locked_positions)
       IN  \E rot \in 0..(Len(shapes(current_piece.shape)) - 1),
              x \in 0..(Columns - 1) :
              /\ ~AllStepsValid(current_piece, grid, rot, x)
              /\ valid_space(EndOfSteps(current_piece, rot, x), grid)
              /\ ~Returned(acts, rot, x)

\* C3: the returned list has no two actions with the same (column, rotation)
\* and at most rotation_count(kind) * 10 entries.
C3_NoDuplicatesAndBounded ==
    AtEnumeration =>
        LET acts == Enumerated
        IN  /\ \A i, j \in DOMAIN acts :
                  (acts[i].x = acts[j].x /\ acts[i].rot = acts[j].rot) => i = j
            /\ Len(acts) <= Len(shapes(current_piece.shape)) * 10

\* C3 witness: a call on a non-empty board that returns several actions and
\* discards some candidate
C3_Witness ==
    /\ AtEnumeration
    /\ locked_positions # {}
    /\ LET acts == Enumerated
       IN  /\ Len(acts) > 1
           /\ Len(acts) < Len(shapes(current_piece.shape)) * 10

\* C4: while the game is not over, the list returned for the piece at its
\* spawn position is not empty, contains (spawn column, rotation 0), and
\* the rest position of that placement is valid.
C4_SpawnColumnAlwaysLegal ==
    (AtEnumeration /\ ~check_defeat(locked_positions)
       /\ current_piece.x = SpawnX /\ current_piece.y = SpawnY
       /\ current_piece.rotation = 0) =>
        LET acts == Enumerated
        IN  /\ acts # << >>
            /\ Returned(acts, 0, SpawnX)
            /\ valid_space(rest_piece(locked_positions, current_piece, 0, SpawnX),
                           create_grid(locked_positions))

\* C4 witness: an enumeration on a board whose stack reaches row 3
C4_Witness ==
    /\ AtEnumeration
    /\ ~check_defeat(locked_positions)
    /\ current_piece = Piece(SpawnX, SpawnY, current_piece.shape)
    /\ \E p \in locked_positions : p[2] <= 3

\* C5: the list is ordered rotation-major, column-minor, and a second call
\* (on the piece as the first call left it) returns the same list.
C5_OrderedAndRepeatable ==
    AtEnumeration =>
        LET acts == Enumerated
        IN  /\ \A i \in 1..(Len(acts) - 1) :
                  \/ acts[i].rot < acts[i + 1].rot
                  \/ /\ acts[i].rot = acts[i + 1].rot
                     /\ acts[i].x < acts[i + 1].x
            /\ generate_possible_actions(locked_positions,
                   piece_after_actions(locked_positions, current_piece)) = acts

\* C5 witness: a list with two rotations and two columns of one rotation
C5_Witness ==
    /\ AtEnumeration
    /\ LET acts == Enumerated
       IN  \E i, j, k \in DOMAIN acts :
              /\ acts[i].rot = acts[j].rot
              /\ acts[i].x # acts[j].x
              /\ acts[k].rot # acts[i].rot

\* the cells of a piece that lie on the 20x10 board
VisibleCells(piece) ==
    {p \in generate_shape_positions(piece) :
        p[1] \in 0..(Columns - 1) /\ p[2] \in 0..(Rows - 1)}

\* C6: for every returned action the rest position is valid, the position
\* one row lower is not, and the board of the action is the input board
\* with exactly the cells of the piece at its rest position added.
C6_RestPositionAndBoard ==
    AtEnumeration =>
        LET acts == Enumerated
            grid == create_grid(locked_positions)
        IN  \A i \in DOMAIN acts :
                LET rest == rest_piece(locked_positions, current_piece,
                                       acts[i].rot, acts[i].x)
                IN  /\ valid_space(rest, grid)
                    /\ ~valid_space([rest EXCEPT !.y = @ + 1], grid)
                    /\ rest.x = acts[i].x
                    /\ acts[i].state = grid \cup VisibleCells(rest)
                    /\ VisibleCells(rest) \cap grid = {}

\* C6 witness: an action whose piece rests on the stack with part of it
\* still in the hidden rows
C6_Witness ==
    /\ AtEnumeration
    /\ LET acts == Enumerated
       IN  \E i \in DOMAIN acts :
              LET rest == rest_piece(locked_positions, current_piece,
                                     acts[i].rot, acts[i].x)
              IN  /\ \E p \in generate_shape_positions(rest) : p[2] < 0
                  /\ \E p \in generate_shape_positions(rest) :
                        <<p[1], p[2] + 1>> \in locked_positions

\* C7: generate_possible_actions leaves the piece (x, y, rotation) and the
\* locked positions as they were before the call.
C7_EnumerationLeavesInputs ==
    [][AtEnumeration => (current_piece' = current_piece
                         /\ locked_positions' = locked_positions)]_vars

\* C7 witness: the pre-loop has just run on a board where candidates were
\* discarded and the last candidate of the loop was dropped to its rest
C7_Witness ==
    /\ pc = "game_loop"
    /\ Len(steps) = action.rot + Abs(SpawnX - action.x) + 1
    /\ locked_positions # {}
    /\ current_piece = Piece(SpawnX, SpawnY, current_piece.shape)
    /\ piece_after_loops(locked_positions, current_piece) # current_piece
    /\ Len(generate_possible_actions(locked_positions, current_piece))
          < Len(shapes(current_piece.shape)) * 10

----------------------------------------------------------------------------
(* Properties of the replay memories (SpecBuffer)                          *)

Min(a, b) == IF a < b THEN a ELSE b

\* the experiences held by the replay memory, oldest first
Stored ==
    [i \in DOMAIN experience_replay |->
        IF agent_type = "prioritized_new" THEN experience_replay[i].experience
        ELSE experience_replay[i]]

\* the last n experiences handed to insert_experience
LastInserted(n) == SubSeq(inserted, Len(inserted) - n + 1, Len(inserted))

\* C8: after any sequence of insert_experience calls the memory holds
\* exactly the last min(k, capacity) inserted experiences in insertion
\* order, for the plain and for the prioritized agent.
C8_BufferIsFifo ==
    Stored = LastInserted(Min(Len(inserted), experience_replay_size))

\* C8 witness: the prioritized agent has evicted entries of a memory that
\* holds more than one entry
C8_Witness ==
    /\ agent_type = "prioritized_new"
    /\ experience_replay_size > 1
    /\ Len(inserted) > experience_replay_size
    /\ inserted[Len(inserted)] # inserted[1]

RECURSIVE SumCounts(_)
SumCounts(f) ==
    IF f = << >> THEN 0 ELSE f[Len(f)] + SumCounts(SubSeq(f, 1, Len(f) - 1))

\* C9 (as claimed): every training step draws exactly
\* min(batch_size, memory size) pairwise distinct entries and does not fail.
C9_TrainingStepDrawsBatch ==
    trained =>
        /\ ~raised
        /\ SumCounts(batch) = Min(batch_size, Len(experience_replay))
        /\ \A i \in DOMAIN batch : batch[i] <= 1

\* C10 (as claimed): after insert_experience of the prioritized agent the
\* newest entry is at rank 1 (index 0) of the sorted queue.
C10_NewestEntryHasRankOne ==
    (agent_type = "prioritized_new" /\ experience_replay # << >>) =>
        sorted_queue[1] = experience_replay[Len(experience_replay)]

----------------------------------------------------------------------------
(* Properties of the training steps and of finish_epoch (SpecBuffer)       *)

Max(a, b) == IF a > b THEN a ELSE b

\* C11 (as claimed): after a training step of the prioritized agent the
\* entries it sampled carry their squared TD error as priority, so the step
\* has completed and some entry of the memory has a finite priority.
C11_SampledEntriesCarryError ==
    (agent_type = "prioritized_new" /\ trained) =>
        /\ ~raised
        /\ \E i \in DOMAIN experience_replay :
              experience_replay[i].priority < inf

\* a step in which finish_epoch ran to its end
FinishEpochReturns == current_epoch' = current_epoch + 1

\* C12 (as claimed): after the k-th finish_epoch call epsilon is
\* max(eps_min, eps_initial - decay * k) with
\* decay = (eps_initial - eps_min) / (total_epochs * epsilon_percentage / 100),
\* it is not below eps_min and not above its value before the call; with
\* eps_initial = 1.0, eps_min = 0.1, epsilon_percentage = 75 and
\* total_epochs = 100 it is 0.1 after epoch 75 and after epoch 100.
C12_EpsilonSchedule ==
    [][FinishEpochReturns =>
          LET unit  == epsilon_unit(total_epochs, epsilon_percentage)
              decay == ((initial_epsilon - minimum_epsilon) * 100) \div unit
              k     == current_epoch
              ex    == epsilon_unit(100, 75)
          IN  /\ epsilon' = Max(minimum_epsilon, initial_epsilon - decay * k)
              /\ epsilon' >= minimum_epsilon
              /\ epsilon' <= epsilon
              /\ \A epoch \in {75, 100} :
                    decayed_epsilon(1000 * ex, main_epsilon_decay(1000, 100),
                                    100 * ex, epoch) = 100 * ex]_vars

\* C13: the target network changes only in finish_epoch or load_weights;
\* act, insert_experience and the training steps leave it as it is.
C13_TargetFixedWithinEpoch ==
    [][target_network' # target_network =>
          last_call' \in {"finish_epoch", "load_weights"}]_vars

\* C13 witness: training steps of insert_experience have moved the Q
\* network away from the target network
C13_Witness ==
    /\ last_call = "insert_experience"
    /\ trained /\ ~raised
    /\ Len(inserted) >= 2
    /\ q_network = target_network + 2

\* C14: a finish_epoch call fits the Q network once, then copies it into the
\* target network, then decays epsilon with the epoch number it had when
\* called, then increments the epoch counter; the two networks are equal
\* when it returns, after construction and after load_weights.
C14_FinishEpochOrder ==
    /\ [][FinishEpochReturns =>
             /\ q_network' = q_network + 1
             /\ target_network' = q_network'
             /\ epsilon' = decayed_epsilon(initial_epsilon, epsilon_decay,
                                           minimum_epsilon, current_epoch)]_vars
    /\ []((last_call \in {"__init__", "load_weights"}
           \/ (last_call = "finish_epoch" /\ ~raised))
          => target_network = q_network)

\* C14 witness: finish_epoch has returned after training steps of the epoch
\* and has lowered epsilon
C14_Witness ==
    /\ last_call = "finish_epoch" /\ ~raised
    /\ Len(inserted) >= 2
    /\ q_network > 1
    /\ epsilon < initial_epsilon

\* C15 (as claimed): every training step of every trainable agent fits
\* targets, and the target of a sampled experience is its reward if it is
\* final, otherwise reward + gamma * the prediction of the target network
\* (as it is during the step) for the next state of that experience.
C15_TargetsBootstrapFromTarget ==
    [][trained' =>
          /\ targets' # {}
          /\ \A t \in targets' :
                LET e == Stored'[t[1]]
                IN  /\ t[2].reward = e.reward
                    /\ t[2].bootstrap =
                          IF e.terminated THEN {}
                          ELSE {[weights |-> target_network,
                                 input |-> e.next_state]}]_vars

----------------------------------------------------------------------------
(* Properties of the training loop (Spec)                                  *)

\* the snapshot of a board: the visible locked cells and the visible cells
\* of the piece
Snapshot(locked, piece) == create_grid(locked) \cup VisibleCells(piece)

\* C16: the calls of main_ai_learn_new alternate act -> piece locked ->
\* insert_experience; the experience recorded has the snapshot taken before
\* the move as state and the board of the chosen action as next state;
\* finish_epoch is called only after the final experience of the game was
\* recorded, and the next act comes after it.
C16_ActInsertAlternate ==
    [][/\ agent_vars' # agent_vars =>
             pc \in {"pre_loop", "post_loop", "game_end"}
       /\ inserted' # inserted => pc = "post_loop"
       /\ current_epoch' # current_epoch => pc = "game_end"
       /\ pc = "pre_loop" =>
             /\ last_call \in {"__init__", "insert_experience", "finish_epoch"}
             /\ last_call' = "act"
             /\ initial_state' = Snapshot(locked_positions, current_piece)
       /\ pc = "post_loop" =>
             /\ last_call = "act"
             /\ locks = 1
             /\ Len(inserted') = Len(inserted) + 1
             /\ inserted'[Len(inserted')].state = initial_state
             /\ inserted'[Len(inserted')].next_state = action.state
             /\ inserted'[Len(inserted')].terminated = ~run
       /\ pc = "game_end" =>
             /\ last_call = "insert_experience"
             /\ inserted[Len(inserted)].terminated
             /\ last_call' = "finish_epoch"]_vars

\* C16 witness: the first piece of the second game has been locked after an
\* act that followed finish_epoch
C16_Witness ==
    /\ pc = "post_loop"
    /\ loop_epoch = 2
    /\ last_call = "act"
    /\ locks = 1
    /\ inserted # << >>
    /\ inserted[Len(inserted)].terminated

\* the conditions that end a game
GameOver ==
    check_defeat(locked_positions) \/ lines >= max_lines_training

C20_SnapshotsShowVisibleCells ==
    /\ pc = "game_loop" =>
          /\ initial_state =
                Snapshot(locked_positions,
                         Piece(SpawnX, SpawnY, current_piece.shape))
          /\ action.state =
                Snapshot(locked_positions,
                         rest_piece(locked_positions,
                                    Piece(SpawnX, SpawnY, current_piece.shape),
                                    action.rot, action.x))
    /\ scored_state = create_grid(locked_before_clear)

----------------------------------------------------------------------------
(* Properties of act (SpecBuffer)                                          *)

\* C18 (as claimed): when act is given an empty candidate list the call
\* raises and no action is handed to the game loop.
C18_EmptyListIsFatal ==
    [][CallActOn(<< >>) => (raised' /\ action' = action)]_vars

----------------------------------------------------------------------------
(* Properties of clear_rows (SpecClearRows)                                *)

\* the full rows of the board clear_rows was called on
FullRows ==
    {y \in 0..(Rows - 1) :
        \A x \in 0..(Columns - 1) : <<x, y>> \in locked_before_clear}

\* where clear_rows has to move the cell (x, y) of a row that is not full
Moved(p) ==
    <<p[1], p[2] + Cardinality({line \in FullRows : line > p[2]})>>

\* C19: clear_rows removes every full row and moves each remaining cell
\* (x, y) to (x, y + number of cleared rows below y); no two cells land on
\* the same coordinate, the vertical order of the remaining rows is kept,
\* the number of locked cells drops by 10 per cleared row and the returned
\* rows are exactly the full rows.
C19_ClearRowsShiftsDown ==
    pc = "cleared" =>
        LET remaining == {p \in locked_before_clear : p[2] \notin FullRows}
        IN  /\ locked_positions = {Moved(p) : p \in remaining}
            /\ \A p, q \in remaining : Moved(p) = Moved(q) => p = q
            /\ \A p, q \in remaining : p[2] < q[2] => Moved(p)[2] < Moved(q)[2]
            /\ Cardinality(locked_positions) =
                  Cardinality(locked_before_clear)
                  - Columns * Cardinality(FullRows)
            /\ final_lines_cleared = Cardinality(FullRows)
            /\ removed_lines(create_grid(locked_before_clear)) = FullRows

\* C19 witness: a full row was cleared below a row that stays, with another
\* full row above it
C19_Witness ==
    /\ pc = "cleared"
    /\ Cardinality(FullRows) >= 2
    /\ \E p \in locked_before_clear :
          /\ p[2] \notin FullRows
          /\ \E low, high \in FullRows : high < p[2] /\ p[2] < low
    /\ locked_positions # {}

----------------------------------------------------------------------------
(* Properties of the scoring functions (SpecFeatures)                      *)

\* a scoring call has returned
Scored == pc \in {"heuristic", "eltetris", "ceiling"}

\* C21 (as claimed): the hole count is the number of empty cells that have
\* a filled cell above them in their column.
C21_HolesAreCoveredCells ==
    Scored => features.holes = Cardinality(covered_cells(scored_state))

\* the cell FillCeiling has filled rests on the floor or on a filled cell
RestsOnColumn(c, state) ==
    c[2] = Rows - 1 \/ <<c[1], c[2] + 1>> \in state

\* C22 (as claimed): filling a cell that lies strictly above every hole of
\* its column leaves the hole count unchanged.
C22_CeilingKeepsHoles ==
    [][(pc = "heuristic" /\ pc' = "ceiling") =>
          features'.holes = features.holes]_vars

\* C22 (amended): filling such a cell never lowers the hole count; the count
\* is unchanged if the cell rests on the floor or on a filled cell and one
\* higher if an empty cell is left below it.
C22_CeilingNeverLowersHoles ==
    [][(pc = "heuristic" /\ pc' = "ceiling") =>
          \A c \in scored_state' \ scored_state :
             /\ features'.holes >= features.holes
             /\ features'.holes = IF RestsOnColumn(c, scored_state)
                                  THEN features.holes
                                  ELSE features.holes + 1]_vars

\* C22 witness: a cell was filled in the row above the rows that vary, over
\* an empty cell, in a state with another hole
C22_Witness ==
    /\ pc = "ceiling"
    /\ features.holes >= 2
    /\ \E x \in FeatureColumns :
          /\ <<x, Rows - MaxFeatureRows - 1>> \in scored_state
          /\ <<x, Rows - MaxFeatureRows>> \notin scored_state

\* pairs of consecutive cells of the rows, and of the columns, that differ
RowPairs(state) ==
    {c \in (0..(Columns - 2)) \X (0..(Rows - 1)) :
        (c \in state) # (<<c[1] + 1, c[2]>> \in state)}

ColumnPairs(state) ==
    {c \in (0..(Columns - 1)) \X (0..(Rows - 2)) :
        (c \in state) # (<<c[1], c[2] + 1>> \in state)}

\* C23: get_row_transitions and get_column_transitions return the number of
\* pairs of consecutive cells of a row, of a column, whose states differ;
\* nothing is counted at the boundary, so the empty and the full board
\* yield 0 for both.
C23_TransitionsArePairs ==
    /\ pc = "eltetris" =>
          /\ features.row_transitions = Cardinality(RowPairs(scored_state))
          /\ features.column_transitions =
                Cardinality(ColumnPairs(scored_state))
    /\ get_row_transitions({}) = 0
    /\ get_column_transitions({}) = 0
    /\ get_row_transitions((0..(Columns - 1)) \X (0..(Rows - 1))) = 0
    /\ get_column_transitions((0..(Columns - 1)) \X (0..(Rows - 1))) = 0

\* C23 witness: a scored state with a row whose first cell is empty and a
\* column whose top cell is empty and that both have filled cells
C23_Witness ==
    /\ pc = "eltetris"
    /\ features.row_transitions > 2
    /\ features.column_transitions > Columns
    /\ <<0, Rows - 1>> \notin scored_state
    /\ <<1, Rows - 1>> \in scored_state

\* the cell (x, y) is empty and the cells at its sides are filled
Flanked(state, x, y) ==
    /\ <<x, y>> \notin state
    /\ <<x - 1, y>> \in state
    /\ <<x + 1, y>> \in state

\* the rows of column x where a well starts: a flanked empty cell that is
\* not part of the run of empty cells of a well that starts higher
WellStarts(state, x) ==
    {y \in 0..(Rows - 1) :
        /\ Flanked(state, x, y)
        /\ ~\E top \in 0..(y - 1) :
               /\ Flanked(state, x, top)
               /\ \A k \in top..y : <<x, k>> \notin state}

\* the number of consecutive empty cells of column x from row y downward
WellDepth(state, x, y) ==
    Cardinality({k \in y..(Rows - 1) :
                    \A j \in y..k : <<x, j>> \notin state})

Triangular(d) == (d * (d + 1)) \div 2

\* C24 (as claimed): in an interior column every well of depth d adds
\* d * (d + 1) / 2 to get_wells.
C24_InteriorWellsAreTriangular ==
    pc = "eltetris" =>
        \A x \in 1..(Columns - 2) :
            features.center_wells[x] =
                SumFn([y \in WellStarts(scored_state, x) |->
                          Triangular(WellDepth(scored_state, x, y))],
                      WellStarts(scored_state, x))

\* C25 (as claimed): get_wells adds the well of each edge column once to
\* the wells of the interior columns.
C25_EdgeWellsCountedOnce ==
    pc = "eltetris" =>
        features.wells =
            SumFn(features.center_wells, 1..(Columns - 2))
            + left_well(scored_state) + right_well(scored_state)

\* C27: compute_heuristic_state_score leaves the locked positions and the
\* piece (x, y, rotation) as they were, and a second call on the inputs it
\* leaves behind returns the values of the first one.
C27_ScoringIsPure ==
    [][(pc = "board" /\ pc' = "heuristic") =>
          /\ current_piece' = current_piece
          /\ locked_positions' = locked_positions
          /\ \E piece_locked \in BOOLEAN :
                /\ features' =
                      compute_heuristic_state_score(locked_positions',
                                                    current_piece',
                                                    piece_locked)
                /\ scored_state' =
                      heuristic_state(locked_positions', current_piece',
                                      piece_locked)]_vars

\* C27 witness: a state was scored with the piece lowered onto the board
\* and the piece is back at its spawn row
C27_Witness ==
    /\ pc = "heuristic"
    /\ scored_state # create_grid(locked_positions)
    /\ current_piece.y = SpawnY
    /\ features.holes > 0
    /\ features.bumpiness > 0

----------------------------------------------------------------------------
(* Properties of the line count (Spec)                                     *)

\* the rows of a state without an empty cell
CompleteRows(state) ==
    {y \in 0..(Rows - 1) : \A x \in 0..(Columns - 1) : <<x, y>> \in state}

\* C26 (as claimed): the complete-line count of a board is the number of its
\* rows without an empty cell; for an action committed in the game it is the
\* number of lines clear_rows reports for the move; a bottom row with one
\* empty cell counts 0.
C26_CompleteLinesAreClearedLines ==
    /\ pc = "post_loop" =>
          /\ compute_complete_lines(action.state) =
                Cardinality(CompleteRows(action.state))
          /\ compute_complete_lines(action.state) = final_lines_cleared
    /\ compute_complete_lines({<<x, Rows - 1>> : x \in 1..(Columns - 1)}) = 0

----------------------------------------------------------------------------
(* Properties of the prioritized agent and of act (SpecBuffer)             *)

\* a call of insert_experience or finish_epoch on the prioritized agent
PrioritizedStep ==
    /\ agent_type = "prioritized_new"
    /\ CallInsertExperience \/ CallFinishEpoch

\* C28 (as claimed): beta of the prioritized agent starts at 0.4 and every
\* finished epoch adds beta_increment to it until it is 1, which is reached
\* after 75% of total_epochs; it stays at 1 afterwards.
C28_BetaIsAnnealed ==
    [][(agent_type = "prioritized_new" /\ CallFinishEpoch) =>
          beta' = IF beta + beta_increment > beta_unit(total_epochs)
                  THEN beta_unit(total_epochs)
                  ELSE beta + beta_increment]_vars

\* C29 (as claimed): a training step of the prioritized agent draws its batch
\* from the sorted queue, and the weight of every drawn entry is computed
\* from the probability of the rank of that entry.
C29_WeightUsesOwnRank ==
    [][PrioritizedStep =>
          /\ ~raised'
          /\ \A drawn \in choice_orders(Len(sorted_queue'),
                             sample_size(Len(sorted_queue'), batch_size)) :
                \A i \in DOMAIN drawn :
                   weight_probability_rank(drawn, i) = drawn[i]]_vars

\* the strategy score act gives a candidate
strategy_score(a) ==
    IF agent_type = "eltetris" THEN eltetris_score(a)
    ELSE predict(q_network, a.state)

\* the first candidate of the list with the highest strategy score
BestCandidate(actions, k) ==
    /\ \A j \in DOMAIN actions :
          strategy_score(actions[j]) <= strategy_score(actions[k])
    /\ \A j \in 1..(k - 1) :
          strategy_score(actions[j]) < strategy_score(actions[k])

C30_OnCandidates ==
    [][\A actions \in CandidateLists \ {<< >>} :
          (CallActOn(actions) /\ ~raised' /\ ~explored') =>
             \E k \in DOMAIN actions :
                /\ action' = actions[k]
                /\ BestCandidate(actions, k)]_vars

----------------------------------------------------------------------------
(* Properties of the play-only agents (SpecBuffer)                         *)

\* C31 (as claimed): initialize_learning_structure, insert_experience and
\* finish_epoch, called on a play-only agent with the arguments of the
\* training loops, print the error and end the program with sys.exit before
\* an action was chosen; nothing happens afterwards.
C31_PlayAgentsExit ==
    [][/\ (/\ agent_type \in PlayAgentTypes
           /\ \/ CallInitializeLearningStructure
              \/ CallInsertExperience
              \/ CallFinishEpoch) => pc' = "exited"
       /\ pc # "exited"]_vars

----------------------------------------------------------------------------
(* Properties of the reward and of the movement sequence (Spec)            *)

\* the reward of the sentence, in tenths
ClaimedReward(game_finished, lines_cleared, lowest_position_filled) ==
    IF game_finished THEN -10
    ELSE IF lines_cleared > 0 THEN 10 * (2 ^ lines_cleared)
    ELSE lowest_position_filled - 10

\* C32 (as claimed): the reward stored with a move is -1 if the move ended
\* the game, 2^lines_cleared if it did not and cleared lines, and
\* (lowest_position_filled / 10) - 1 otherwise.
C32_GameReward ==
    [][pc = "post_loop" =>
          inserted'[Len(inserted')].reward =
              ClaimedReward(~run, final_lines_cleared,
                            final_piece_depth)]_vars

\* C33: the queue built for the chosen action holds action.rot entries
\* 'rotate', then |piece.x - action.x| entries that are all 'left' if the
\* target column is left of the piece and all 'right' if it is right of it,
\* then one 'hard_drop'; it is never empty.
C33_MovementSequenceShape ==
    [][(pc = "pre_loop" /\ pc' = "game_loop") =>
          LET rotation     == action'.rot
              x_difference == current_piece'.x - action'.x
              displacement == Abs(x_difference)
          IN  /\ steps' # << >>
              /\ Len(steps') = rotation + displacement + 1
              /\ \A i \in 1..rotation : steps'[i] = "rotate"
              /\ \A i \in (rotation + 1)..(rotation + displacement) :
                    steps'[i] = IF x_difference > 0 THEN "left" ELSE "right"
              /\ steps'[Len(steps')] = "hard_drop"]_vars

\* C33 witness: a queue with rotations and moves to the right has been built
\* and nothing has been taken from it yet
C33_Witness ==
    /\ pc = "game_loop"
    /\ action.rot >= 1
    /\ action.x > current_piece.x
    /\ Len(steps) = action.rot + (action.x - current_piece.x) + 1
    /\ steps[1] = "rotate"
    /\ steps[action.rot + 1] = "right"
    /\ steps[Len(steps)] = "hard_drop"

----------------------------------------------------------------------------
(* Properties of the sorted queue (SpecBuffer)                             *)

\* C34 (as claimed): the sorted queue is ordered by priority descending and,
\* among equal priorities, by insertion number descending; an entry has a
\* greater insertion number than every entry inserted before it, so no two
\* entries of the queue have the same key.
C34_RankingIsStrict ==
    agent_type = "prioritized_new" =>
       /\ \A i, j \in DOMAIN sorted_queue :
             i < j => key_less(sorted_queue[j], sorted_queue[i])
       /\ \A i, j \in DOMAIN experience_replay :
             i < j => experience_replay[i].insertion
                         < experience_replay[j].insertion

\* the order of the sorted queue without the strictness
C34_QueueIsOrdered ==
    agent_type = "prioritized_new" =>
       \A i, j \in DOMAIN sorted_queue :
          i < j => ~key_less(sorted_queue[i], sorted_queue[j])

----------------------------------------------------------------------------
(* Properties of the end of a game (SpecLineLimit)                         *)

\* C35 (as claimed): the terminal flag stored with a move is true exactly
\* when the move ended the game by defeat.
C35_TerminalIffDefeat ==
    [][pc = "post_loop" =>
          (inserted'[Len(inserted')].terminated
              <=> check_defeat(locked_positions))]_vars

\* C36 (as claimed): the game-over penalty is the reward of the moves after
\* which check_defeat holds and of no other move; a move that ends the game
\* by reaching max_lines_training is rewarded with 2^lines_cleared.
C36_PenaltyOnlyOnDefeat ==
    [][pc = "post_loop" =>
          inserted'[Len(inserted')].reward =
              compute_reward_new(check_defeat(locked_positions),
                                 final_lines_cleared,
                                 final_piece_depth)]_vars

----------------------------------------------------------------------------
(* Properties of the game loop (SpecBlockedSpawn)                          *)

\* every cell of the piece lies in the columns of the board and in its rows,
\* the hidden ones included, and on no locked cell
ValidPosition(piece, locked) ==
    \A pos \in generate_shape_positions(piece) :
        /\ pos[1] \in 0..(Columns - 1)
        /\ pos[2] \in (-HiddenRows)..(Rows - 1)
        /\ pos \notin locked

\* C37 (as claimed): at the end of every tick of the game loop the piece in
\* play is in a valid position.
C37_PieceStaysValid ==
    [][pc = "game_loop" =>
          ValidPosition(current_piece', locked_positions')]_vars

\* C37 (amended): at the end of every tick after which the game goes on the
\* piece in play is in a valid position; at the end of a tick that ends the
\* game by defeat the piece spawned last is in the columns and rows of the
\* board and on no locked cell of the visible rows.
C37_PieceStaysValidWhileRunning ==
    [][pc = "game_loop" =>
          /\ run' => ValidPosition(current_piece', locked_positions')
          /\ valid_space(current_piece', create_grid(locked_positions'))]_vars

\* C37 witness: a left move of the queue was taken back (the piece is right
\* of the column of its action, with only the hard drop left to do) and the
\* game goes on
C37_Witness ==
    /\ pc = "game_loop"
    /\ run
    /\ steps = <<"hard_drop">>
    /\ current_piece.x > action.x
    /\ ValidPosition(current_piece, locked_positions)

----------------------------------------------------------------------------
(* Properties of the board the agent is shown (Spec)                       *)

\* a board of a game that goes on: no row is complete, every locked cell is
\* in columns 0..9 and rows 1..19
BoardInPlay(locked) ==
    /\ CompleteRows(locked) = {}
    /\ \A pos \in locked : /\ pos[1] \in 0..(Columns - 1)
                           /\ pos[2] \in 1..(Rows - 1)

----------------------------------------------------------------------------
(* Properties of the inner loop of the new approach (SpecEarlyLock)        *)

\* C39: in the loop of the new approach the step queue is never popped while
\* empty: inside the inner loop it holds between 1 and rotation + |dx| + 1
\* inputs and an iteration takes at most one; the inner loop is left with the
\* piece of the action locked, by the hard drop polled as the last input of
\* the queue; and every chosen action eventually leaves the inner loop.
C39_InnerLoopEnds ==
    /\ [](pc = "game_loop" =>
            Len(steps) \in 1..(action.rot + Abs(SpawnX - action.x) + 1))
    /\ [][pc = "game_loop" =>
            /\ pc' # "aborted"
            /\ Len(steps') \in {Len(steps), Len(steps) - 1}
            /\ pc' = "post_loop" =>
                  /\ locks' = 1
                  /\ steps = <<"hard_drop">>
                  /\ steps' = << >>]_vars
    /\ (pc = "game_loop") ~> (pc = "post_loop")

\* C39 witness: an action with a rotation and a displacement has left the
\* inner loop with its queue used up and its piece locked
C39_Witness ==
    /\ pc = "post_loop"
    /\ action.rot >= 1
    /\ action.x # SpawnX
    /\ steps = << >>
    /\ locks = 1
    /\ run

----------------------------------------------------------------------------
(* Properties of the samples of the prioritized agent (SpecBuffer)         *)

\* the queue holds the entries of the memory, each as often as the memory
QueueIsPermutation(queue, memory) ==
    /\ Len(queue) = Len(memory)
    /\ \A i \in DOMAIN memory :
          Cardinality({j \in DOMAIN queue : queue[j] = memory[i]}) =
          Cardinality({j \in DOMAIN memory : memory[j] = memory[i]})

\* C40 (as claimed): whenever the prioritized agent samples, in
\* insert_experience or in finish_epoch, the sorted queue it samples from is
\* a permutation of the replay memory as it is then, and the step gets as
\* far as writing the priorities of the drawn entries back into the memory.
C40_DrawnEntriesAreWrittenBack ==
    [][PrioritizedStep =>
          /\ QueueIsPermutation(sorted_queue', experience_replay')
          /\ trained'
          /\ ~raised']_vars

\* the part of C40 on the sorted queue alone
C40_QueueIsPermutation ==
    [][PrioritizedStep =>
          QueueIsPermutation(sorted_queue', experience_replay')]_vars

====
